---- MODULE Spec2Model ----
(***************************************************************************)
(* Bookmark XP Explorer: the undo action log, the mutating handlers that   *)
(* feed it and the drag session of the full-page view                      *)
(* (background/service-worker.js, lines 50-1886), over a model of the      *)
(* browser's bookmark store.                                               *)
(*                                                                         *)
(* Every handler is an async function: it runs synchronously up to a store *)
(* call, is suspended, and resumes with the call's result.  One action of  *)
(* the model is one such synchronous stretch; the store applies a call at  *)
(* the moment it is issued.  Ids are the store's strings '0', '1', ...     *)
(* written as naturals; titles are sequences of words so that appending    *)
(* ' (copy)' is a real concatenation.                                      *)
(***************************************************************************)
EXTENDS Integers, Sequences, FiniteSets, TLC

\* ------------------------------------------------------------------
\* Bounds of the model
\* ------------------------------------------------------------------
\* user actions (handler invocations) in one behaviour of Spec
MaxOps == 3
\* store calls the environment may reject with a generic store error
MaxFaults == 1

\* ------------------------------------------------------------------
\* Program constants
\* ------------------------------------------------------------------
MAX_UNDO_STACK_SIZE == 50

\* ------------------------------------------------------------------
\* Bookmark store (chrome.bookmarks), spec section 6
\* ------------------------------------------------------------------
RootId == 0
BarId == 1
OtherId == 2
NoId == -1
NoIndex == -1
NoUrl == ""
NoValue == [none |-> TRUE]

\* root and the default top-level folders cannot be modified
ReservedIds == {RootId, BarId, OtherId}

Exists(s, id) == id \in DOMAIN s.nodes

IsFolderNode(s, id) == s.nodes[id].url = NoUrl

ChildrenOf(s, id) == s.nodes[id].children

\* zero-based position of id among its siblings
IndexOf(s, id) ==
  LET ch == ChildrenOf(s, s.nodes[id].parentId)
  IN (CHOOSE i \in 1..Len(ch) : ch[i] = id) - 1

RECURSIVE SubtreeIds(_, _)
SubtreeIds(s, id) ==
  {id} \cup UNION { SubtreeIds(s, ChildrenOf(s, id)[i]) : i \in 1..Len(ChildrenOf(s, id)) }

\* the node object the store hands out for an id
NodeView(s, id) ==
  [id |-> id,
   parentId |-> s.nodes[id].parentId,
   index |-> IF id = RootId THEN 0 ELSE IndexOf(s, id),
   title |-> s.nodes[id].title,
   url |-> s.nodes[id].url]

\* getSubTree: the node with all its descendants, children in index order
RECURSIVE SubTreeView(_, _)
SubTreeView(s, id) ==
  [id |-> id,
   title |-> s.nodes[id].title,
   url |-> s.nodes[id].url,
   children |-> [i \in 1..Len(ChildrenOf(s, id)) |-> SubTreeView(s, ChildrenOf(s, id)[i])]]

InsertAt(seq, index, x) ==
  SubSeq(seq, 1, index) \o <<x>> \o SubSeq(seq, index + 1, Len(seq))

RemoveFrom(seq, x) == SelectSeq(seq, LAMBDA y : y # x)

Failed(s) == [ok |-> FALSE, store |-> s, value |-> NoValue]

StoreGet(s, id) ==
  IF Exists(s, id)
  THEN [ok |-> TRUE, store |-> s, value |-> NodeView(s, id)]
  ELSE Failed(s)

StoreGetSubTree(s, id) ==
  IF Exists(s, id)
  THEN [ok |-> TRUE, store |-> s, value |-> SubTreeView(s, id)]
  ELSE Failed(s)

\* create: a fresh id, never used before; index NoIndex appends
StoreCreate(s, parentId, title, url, index) ==
  IF /\ Exists(s, parentId)
     /\ parentId # RootId
     /\ IsFolderNode(s, parentId)
     /\ (index = NoIndex \/ index \in 0..Len(ChildrenOf(s, parentId)))
  THEN LET id == s.nextId
           at == IF index = NoIndex THEN Len(ChildrenOf(s, parentId)) ELSE index
           nodes == [n \in DOMAIN s.nodes \cup {id} |->
                      IF n = id
                      THEN [parentId |-> parentId, title |-> title, url |-> url, children |-> <<>>]
                      ELSE IF n = parentId
                      THEN [s.nodes[n] EXCEPT !.children = InsertAt(@, at, id)]
                      ELSE s.nodes[n]]
           s2 == [nodes |-> nodes, nextId |-> id + 1]
       IN [ok |-> TRUE, store |-> s2, value |-> NodeView(s2, id)]
  ELSE Failed(s)

StoreUpdate(s, id, title) ==
  IF Exists(s, id) /\ id \notin ReservedIds
  THEN [ok |-> TRUE,
        store |-> [s EXCEPT !.nodes[id].title = title],
        value |-> NoValue]
  ELSE Failed(s)

\* move: the node is removed from its sibling list, then inserted at index
StoreMove(s, id, parentId, index) ==
  IF /\ Exists(s, id)
     /\ id \notin ReservedIds
     /\ Exists(s, parentId)
     /\ parentId # RootId
     /\ IsFolderNode(s, parentId)
     /\ parentId \notin SubtreeIds(s, id)
  THEN LET from == s.nodes[id].parentId
           removed == [s.nodes EXCEPT ![from].children = RemoveFrom(@, id)]
           len == Len(removed[parentId].children)
           at == IF index = NoIndex THEN len ELSE index
       IN IF at \in 0..len
          THEN [ok |-> TRUE,
                store |-> [s EXCEPT !.nodes =
                            [removed EXCEPT ![parentId].children = InsertAt(@, at, id),
                                            ![id].parentId = parentId]],
                value |-> NoValue]
          ELSE Failed(s)
  ELSE Failed(s)

RemoveIds(s, ids, id) ==
  LET from == s.nodes[id].parentId
  IN [s EXCEPT !.nodes =
       [n \in DOMAIN s.nodes \ ids |->
          IF n = from
          THEN [s.nodes[n] EXCEPT !.children = RemoveFrom(@, id)]
          ELSE s.nodes[n]]]

\* remove: a bookmark or an empty folder
StoreRemove(s, id) ==
  IF Exists(s, id) /\ id \notin ReservedIds /\ ChildrenOf(s, id) = <<>>
  THEN [ok |-> TRUE, store |-> RemoveIds(s, {id}, id), value |-> NoValue]
  ELSE Failed(s)

\* removeTree: a node with everything below it
StoreRemoveTree(s, id) ==
  IF Exists(s, id) /\ id \notin ReservedIds
  THEN [ok |-> TRUE, store |-> RemoveIds(s, SubtreeIds(s, id), id), value |-> NoValue]
  ELSE Failed(s)

\* one call on the store; fault = the store rejects it with a generic error
StoreCall(s, c, fault) ==
  IF fault THEN Failed(s)
  ELSE CASE c.op = "get" -> StoreGet(s, c.id)
         [] c.op = "getSubTree" -> StoreGetSubTree(s, c.id)
         [] c.op = "create" -> StoreCreate(s, c.parentId, c.title, c.url, c.index)
         [] c.op = "update" -> StoreUpdate(s, c.id, c.title)
         [] c.op = "move" -> StoreMove(s, c.id, c.parentId, c.index)
         [] c.op = "remove" -> StoreRemove(s, c.id)
         [] c.op = "removeTree" -> StoreRemoveTree(s, c.id)

\* the tree below id by title, url and position only (ids left out)
RECURSIVE Shape(_, _)
Shape(s, id) ==
  [title |-> s.nodes[id].title,
   url |-> s.nodes[id].url,
   children |-> [i \in 1..Len(ChildrenOf(s, id)) |-> Shape(s, ChildrenOf(s, id)[i])]]

TreeShape(s) == Shape(s, RootId)

\* ------------------------------------------------------------------
\* State
\* ------------------------------------------------------------------
VARIABLES
  store,            \* the browser's bookmark store: nodes by id, next fresh id
  faultsLeft,       \* store calls the environment may still reject
  clock,            \* Date.now(), advanced by every handler invocation
  undoStack,        \* state.undoStack
  undoEnabled,      \* the undo buttons are enabled (updateUndoButtons)
  toast,            \* the last notice shown (showToast)
  clipboard,        \* state.clipboard
  panes,            \* state.panes
  draggedItem,      \* state.draggedItem
  lastDropTarget,   \* setupDragAndDrop: lastDropTarget
  lastDropPosition, \* setupDragAndDrop: lastDropPosition
  dropIndicator,    \* the element that carries a drop indicator class, and the class
  dragging,         \* a drag operation is in progress (a row carries class 'dragging')
  viewMode,         \* state.viewMode
  shown,            \* the rows rendered in each pane's content area and in the folder tree
  tasks,            \* the suspended handlers: position and local bindings
  lastPush,         \* history: the store around the mutation of the last pushed entry
  lastEvent,        \* history: the handler that completed last, until the next starts
  scen,             \* history: progress of create "Test" / delete / undo / undo
  calc              \* history: the inputs and the result of a function under study

storeVars == <<store, faultsLeft>>
undoVars == <<undoStack, undoEnabled>>
dragVars == <<draggedItem, lastDropTarget, lastDropPosition, dropIndicator, dragging>>
viewVars == <<viewMode, shown>>
histVars == <<lastPush, lastEvent, scen, calc>>
vars == <<store, faultsLeft, clock, undoStack, undoEnabled, toast, clipboard, panes,
          draggedItem, lastDropTarget, lastDropPosition, dropIndicator, dragging,
          viewMode, shown, tasks, lastPush, lastEvent, scen, calc>>

Handlers == {"undo", "newFolder", "newBookmark", "paste", "rename", "delete", "drop", "up",
             "popupDrop"}
Panes == {1, 2}

IdleTask == [pc |-> "idle"]
AllIdle == \A h \in Handlers : tasks[h].pc = "idle"

\* a title is a sequence of words and blanks
Word(w) == <<w>>
Blank == " "
TestTitle == Word("Test")
\* titles and urls typed into the dialogs
InputTitles == {TestTitle, Word(Blank) \o Word("N")}

\* String.prototype.trim: the text without its leading and trailing blanks
trim(text) ==
  LET inked == { i \in 1..Len(text) : text[i] # Blank }
  IN IF inked = {}
     THEN <<>>
     ELSE SubSeq(text, CHOOSE i \in inked : \A j \in inked : i <= j,
                 CHOOSE i \in inked : \A j \in inked : i >= j)
InputUrls == {"u:n"}

Folder(parentId, title, children) ==
  [parentId |-> parentId, title |-> title, url |-> NoUrl, children |-> children]
Bookmark(parentId, title, url) ==
  [parentId |-> parentId, title |-> title, url |-> url, children |-> <<>>]

\* Bookmarks Bar holds folder A (bookmark x, folder B (bookmark y)) and bookmark z,
\* Other Bookmarks holds bookmark w
InitialStore ==
  [nodes |->
     (0 :> Folder(NoId, Word("root"), <<1, 2>>)) @@
     (1 :> Folder(0, Word("Bookmarks Bar"), <<3, 7>>)) @@
     (2 :> Folder(0, Word("Other Bookmarks"), <<8>>)) @@
     (3 :> Folder(1, Word("A"), <<4, 5>>)) @@
     (4 :> Bookmark(3, Word("x"), "u:x")) @@
     (5 :> Folder(3, Word("B"), <<6>>)) @@
     (6 :> Bookmark(5, Word("y"), "u:y")) @@
     (7 :> Bookmark(1, Word("z"), "u:z")) @@
     (8 :> Bookmark(2, Word("w"), "u:w")),
   nextId |-> 9]

InitialPanes ==
  [p \in Panes |->
     [currentFolderId |-> p, history |-> <<p>>, historyIndex |-> 0, selectedItems |-> {}]]

\* the undo buttons of the page markup carry the disabled attribute
InitialUndoEnabled == FALSE

\* ------------------------------------------------------------------
\* Rendering of the panes and of the folder tree
\* ------------------------------------------------------------------
\* a pane is on screen: pane 2 only in split view
Visible(p) == p = 1 \/ viewMode = "split"

\* renderContentItem: the row of a child
ContentRow(s, id) ==
  [id |-> id, title |-> s.nodes[id].title, isFolder |-> IsFolderNode(s, id)]

\* the rows of a folder's children, in the store's order
RenderContent(s, folderId) ==
  [i \in 1..Len(ChildrenOf(s, folderId)) |-> ContentRow(s, ChildrenOf(s, folderId)[i])]

\* renderTreeItem: the folders of the whole tree, each with its title and its folders
RenderTree(s) ==
  [id \in { n \in DOMAIN s.nodes : IsFolderNode(s, n) } |->
     [title |-> s.nodes[id].title,
      folders |-> SelectSeq(ChildrenOf(s, id), LAMBDA c : IsFolderNode(s, c))]]

\* updatePaneNavButtons: a control is enabled when its disabled property is false
updatePaneNavButtons(paneState) ==
  [back |-> ~(paneState.historyIndex <= 0),
   forward |-> ~(paneState.historyIndex >= Len(paneState.history) - 1),
   up |-> ~(paneState.currentFolderId = RootId)]

\* loadPaneContent: getChildren rejects for a folder that is gone, and then the
\* content area and the controls keep what they show; for a folder without
\* children it renders the empty state and returns before updatePaneNavButtons
loadPaneContent(sh, s, ps, paneNum) ==
  IF Exists(s, ps[paneNum].currentFolderId)
  THEN LET children == RenderContent(s, ps[paneNum].currentFolderId)
       IN [ok |-> TRUE,
           shown |-> [sh EXCEPT !.pane[paneNum] = children,
                                !.buttons[paneNum] =
                                  IF Len(children) = 0 THEN @
                                  ELSE updatePaneNavButtons(ps[paneNum])]]
  ELSE [ok |-> FALSE, shown |-> sh]

\* loadFolderTree
loadFolderTree(sh, s) == [ok |-> TRUE, shown |-> [sh EXCEPT !.tree = RenderTree(s)]]

\* a sequence of pane reloads; the first that rejects abandons the rest
RECURSIVE LoadPanes(_, _, _, _)
LoadPanes(sh, s, ps, paneNums) ==
  IF paneNums = <<>>
  THEN [ok |-> TRUE, shown |-> sh]
  ELSE LET r == loadPaneContent(sh, s, ps, Head(paneNums))
       IN IF r.ok THEN LoadPanes(r.shown, s, ps, Tail(paneNums)) ELSE r

\* the reloads that end a handler: panes, then the tree
LoadViews(sh, s, ps, paneNums, withTree) ==
  LET r == LoadPanes(sh, s, ps, paneNums)
  IN IF r.ok /\ withTree THEN loadFolderTree(r.shown, s) ELSE r

\* loadPaneContent(1); if (state.viewMode === 'split') loadPaneContent(2)
BothPanes == IF viewMode = "split" THEN <<1, 2>> ELSE <<1>>

InitialShown ==
  [pane |-> [p \in Panes |-> RenderContent(InitialStore, InitialPanes[p].currentFolderId)],
   buttons |-> [p \in Panes |-> updatePaneNavButtons(InitialPanes[p])],
   tree |-> RenderTree(InitialStore)]

\* the saved view mode that loadState restores: both panes are on screen
InitialViewMode == "split"

NoEvent == [op |-> "none"]
NoToast == [text |-> "", type |-> "none"]
NoPush == [valid |-> FALSE]

Init ==
  /\ store = InitialStore
  /\ faultsLeft = MaxFaults
  /\ clock = 0
  /\ undoStack = <<>>
  /\ undoEnabled = InitialUndoEnabled
  /\ toast = NoToast
  /\ clipboard = NoValue
  /\ panes = InitialPanes
  /\ draggedItem = NoValue
  /\ lastDropTarget = NoValue
  /\ lastDropPosition = "none"
  /\ dropIndicator = NoValue
  /\ dragging = FALSE
  /\ viewMode = InitialViewMode
  /\ shown = InitialShown
  /\ tasks = [h \in Handlers |-> IdleTask]
  /\ lastPush = NoPush
  /\ lastEvent = NoEvent
  /\ scen = [step |-> 0]
  /\ calc = NoValue

\* ------------------------------------------------------------------
\* Environment and history helpers
\* ------------------------------------------------------------------
Faults == IF faultsLeft > 0 THEN BOOLEAN ELSE {FALSE}

\* what a suspended handler keeps of a store call's outcome
Outcome(r) == [ok |-> r.ok, value |-> r.value]

\* history: a store call with its outcome
Logged(c, r) == [call |-> c, ok |-> r.ok]

Issue(r, fault) ==
  /\ store' = r.store
  /\ faultsLeft' = IF fault THEN faultsLeft - 1 ELSE faultsLeft

Notice(text, type) == [text |-> text, type |-> type]

Reload_GoHome(paneNums, withTree, okNotice, failNotice) ==
  LET home == [p \in Panes |-> IF Exists(store, panes[p].currentFolderId)
                               THEN panes[p]
                               ELSE InitialPanes[p]]
      r == LoadViews(shown, store, home, paneNums, withTree)
  IN /\ shown' = r.shown
     /\ toast' = IF r.ok THEN okNotice ELSE failNotice
     /\ panes' = home
     /\ UNCHANGED viewMode

\* the reloads that end a handler; one that rejects lands in the handler's catch
\* block, whose notice replaces the success notice; state.panes is only read
Reload(paneNums, withTree, okNotice, failNotice) ==
  LET r == LoadViews(shown, store, panes, paneNums, withTree)
  IN /\ shown' = r.shown
     /\ toast' = IF r.ok THEN okNotice ELSE failNotice
     /\ UNCHANGED <<panes, viewMode>>

\* the scenario of spec section 8: create folder "Test" on an empty stack,
\* delete it, undo, undo; any other completed handler starts over
ScenStep(sc, ev) ==
  IF /\ ev.op = "newFolder" /\ ev.ok /\ ev.title = TestTitle /\ ev.stackBefore = <<>>
  THEN [step |-> 1, base |-> TreeShape(ev.before), id |-> ev.createdId]
  ELSE IF sc.step = 1 /\ ev.op = "delete" /\ ev.ok /\ ev.id = sc.id
  THEN [sc EXCEPT !.step = 2]
  ELSE IF sc.step \in {2, 3} /\ ev.op = "undo" /\ ~ev.faulted
  THEN [sc EXCEPT !.step = sc.step + 1]
  ELSE [step |-> 0]

\* history: handler ev has returned; at is the clock of its invocation
Complete(ev, at) ==
  /\ lastEvent' = ev @@ [at |-> at]
  /\ scen' = ScenStep(scen, ev)
  /\ UNCHANGED calc

\* ------------------------------------------------------------------
\* Undo action log
\* ------------------------------------------------------------------
pushUndoAction_DropNewest(stack, action, now) ==
  LET pushed == Append(stack, action @@ [timestamp |-> now])
  IN IF Len(pushed) > MAX_UNDO_STACK_SIZE THEN SubSeq(pushed, 1, Len(pushed) - 1) ELSE pushed

pushUndoAction(stack, action, now) ==
  LET pushed == Append(stack, action @@ [timestamp |-> now])
  IN IF Len(pushed) > MAX_UNDO_STACK_SIZE THEN Tail(pushed) ELSE pushed

updateUndoButtons_Always(stack) == TRUE

updateUndoButtons(stack) == Len(stack) > 0

\* the entries the handlers push
CreateAction_Parent(created) == [type |-> "create", createdId |-> created.parentId]

CreateAction(created) == [type |-> "create", createdId |-> created.id]

PasteAction(created) == [type |-> "paste", createdId |-> created.id]

RenameAction_New(id, originalTitle, newTitle) ==
  [type |-> "rename", itemId |-> id, originalTitle |-> newTitle]

RenameAction(id, originalTitle, newTitle) ==
  [type |-> "rename", itemId |-> id, originalTitle |-> originalTitle]

DeleteAction(fullData, node) ==
  [type |-> "delete", data |-> fullData, parentId |-> node.parentId, index |-> node.index]

MoveAction_NoIndex(itemId, originalParentId, originalIndex) ==
  [type |-> "move", itemId |-> itemId, originalParentId |-> originalParentId,
   originalIndex |-> NoIndex]

MoveAction(itemId, originalParentId, originalIndex) ==
  [type |-> "move", itemId |-> itemId, originalParentId |-> originalParentId,
   originalIndex |-> originalIndex]

Push(action, before) ==
  /\ undoStack' = pushUndoAction(undoStack, action, clock)
  /\ undoEnabled' = updateUndoButtons(undoStack')
  /\ lastPush' = [valid |-> TRUE, type |-> action.type, pre |-> before, post |-> store]

\* ------------------------------------------------------------------
\* New folder, new bookmark
\* ------------------------------------------------------------------
ConfirmCreate(h, paneNum, title, url, fault) ==
  /\ tasks[h].pc = "idle"
  /\ ~dragging
  /\ trim(title) # <<>>
  /\ LET c == [op |-> "create", parentId |-> panes[paneNum].currentFolderId,
               title |-> trim(title), url |-> url, index |-> NoIndex]
         r == StoreCall(store, c, fault)
     IN /\ Issue(r, fault)
        /\ tasks' = [tasks EXCEPT ![h] =
                      [pc |-> "created", res |-> Outcome(r), title |-> trim(title),
                       paneNum |-> paneNum,
                       g_calls |-> <<Logged(c, r)>>,
                       g_before |-> store, g_stack |-> undoStack, g_faulted |-> fault]]
  /\ clock' = clock + 1
  /\ lastEvent' = NoEvent
  /\ UNCHANGED <<undoVars, toast, clipboard, panes, viewVars, dragVars, lastPush, scen, calc>>

CreateResume_PushAlways(h, okText, failText) ==
  /\ tasks[h].pc = "created"
  /\ LET t == tasks[h]
     IN /\ IF t.res.ok
           THEN /\ Push(CreateAction(t.res.value), t.g_before)
                /\ Reload(<<t.paneNum>>, h = "newFolder",
                          Notice(okText, "success"), Notice(failText, "error"))
           ELSE /\ Push([type |-> "create", createdId |-> NoId], t.g_before)
                /\ toast' = Notice(failText, "error")
                /\ UNCHANGED <<panes, viewVars>>
        /\ Complete([op |-> h, ok |-> t.res.ok, title |-> t.title,
                     createdId |-> IF t.res.ok THEN t.res.value.id ELSE NoId,
                     calls |-> t.g_calls,
                     before |-> t.g_before, stackBefore |-> t.g_stack,
                     faulted |-> t.g_faulted], clock)
  /\ tasks' = [tasks EXCEPT ![h] = IdleTask]
  /\ UNCHANGED <<storeVars, clock, clipboard, dragVars>>

CreateResume(h, okText, failText) ==
  /\ tasks[h].pc = "created"
  /\ LET t == tasks[h]
     IN /\ IF t.res.ok
           THEN /\ Push(CreateAction(t.res.value), t.g_before)
                /\ Reload(<<t.paneNum>>, h = "newFolder",
                          Notice(okText, "success"), Notice(failText, "error"))
           ELSE /\ toast' = Notice(failText, "error")
                /\ UNCHANGED <<undoVars, lastPush, panes, viewVars>>
        /\ Complete([op |-> h, ok |-> t.res.ok, title |-> t.title,
                     createdId |-> IF t.res.ok THEN t.res.value.id ELSE NoId,
                     calls |-> t.g_calls,
                     before |-> t.g_before, stackBefore |-> t.g_stack,
                     faulted |-> t.g_faulted], clock)
  /\ tasks' = [tasks EXCEPT ![h] = IdleTask]
  /\ UNCHANGED <<storeVars, clock, clipboard, dragVars>>

confirmNewFolder(paneNum, title, fault) ==
  ConfirmCreate("newFolder", paneNum, title, NoUrl, fault)

NewFolderResume == CreateResume("newFolder", "Folder created", "Failed to create folder")

confirmNewBookmark(paneNum, title, url, fault) ==
  /\ url # NoUrl
  /\ ConfirmCreate("newBookmark", paneNum, title, url, fault)

NewBookmarkResume == CreateResume("newBookmark", "Bookmark created", "Failed to create bookmark")

\* ------------------------------------------------------------------
\* Undo
\* ------------------------------------------------------------------
CreateCall(node, parentId, index) ==
  [op |-> "create", parentId |-> parentId, title |-> node.title, url |-> node.url, index |-> index]

ChildFrames_Front(node, createdId) ==
  [i \in 1..Len(node.children) |->
     [node |-> node.children[i], parentId |-> createdId, index |-> 0]]

\* restoreBookmarkTree: the recursive calls still to make, in pre-order
ChildFrames(node, createdId) ==
  [i \in 1..Len(node.children) |->
     [node |-> node.children[i], parentId |-> createdId, index |-> i - 1]]

\* the first store call of performUndo for an entry
UndoDispatch(action) ==
  CASE action.type = "delete" -> CreateCall(action.data, action.parentId, action.index)
    [] action.type = "move" ->
         [op |-> "move", id |-> action.itemId,
          parentId |-> action.originalParentId, index |-> action.originalIndex]
    [] action.type = "rename" ->
         [op |-> "update", id |-> action.itemId, title |-> action.originalTitle]
    [] action.type \in {"create", "paste"} -> [op |-> "get", id |-> action.createdId]

UndoPc(action) ==
  CASE action.type = "delete" -> "restore"
    [] action.type \in {"move", "rename"} -> "inverse"
    [] action.type \in {"create", "paste"} -> "lookup"

UndoneText(action) ==
  CASE action.type = "delete" -> "Restored"
    [] action.type = "move" -> "Move undone"
    [] action.type = "rename" -> "Rename undone"
    [] action.type = "create" -> "Creation undone"
    [] action.type = "paste" -> "Paste undone"

\* the store call that deletes a created or pasted node
RemoveCall(node, id) ==
  [op |-> IF node.url # NoUrl THEN "remove" ELSE "removeTree", id |-> id]

NothingToUndo_One(stack) == Len(stack) <= 1

NothingToUndo(stack) == Len(stack) = 0

UndoPop(stack) == SubSeq(stack, 1, Len(stack) - 1)

UndoTop_Oldest(stack) == stack[1]

UndoTop(stack) == stack[Len(stack)]

\* history: the handlers suspended on a store mutation that the store has
\* applied and whose undo entry is not pushed yet
InFlight ==
  { h \in Handlers \ {"undo", "up"} :
      /\ tasks[h].pc \in {"created", "updated", "removed", "moved"}
      /\ tasks[h].res.ok }

performUndo(fault) ==
  /\ tasks["undo"].pc = "idle"
  /\ ~dragging
  /\ clock' = clock + 1
  /\ IF NothingToUndo(undoStack)
     THEN /\ fault = FALSE
          /\ toast' = Notice("Nothing to undo", "info")
          /\ Complete([op |-> "undo", empty |-> TRUE, ok |-> FALSE, calls |-> <<>>,
                       before |-> store, stackBefore |-> undoStack, faulted |-> FALSE],
                      clock + 1)
          /\ UNCHANGED <<storeVars, undoVars, tasks, lastPush>>
     ELSE LET action == UndoTop(undoStack)
              c == UndoDispatch(action)
              r == StoreCall(store, c, fault)
          IN /\ undoStack' = UndoPop(undoStack)
             /\ undoEnabled' = updateUndoButtons(undoStack')
             /\ Issue(r, fault)
             /\ tasks' = [tasks EXCEPT !["undo"] =
                           [pc |-> UndoPc(action), action |-> action, res |-> Outcome(r),
                            cur |-> IF action.type = "delete" THEN action.data ELSE NoValue,
                            frames |-> <<>>,
                            g_calls |-> <<Logged(c, r)>>, g_before |-> store,
                            g_stack |-> undoStack,
                            g_fresh |-> lastPush.valid /\ store = lastPush.post,
                            g_pre |-> IF lastPush.valid THEN lastPush.pre ELSE NoValue,
                            g_inflight |-> InFlight,
                            g_faulted |-> fault]]
             /\ lastPush' = NoPush
             /\ lastEvent' = NoEvent
             /\ UNCHANGED <<toast, scen, calc>>
  /\ UNCHANGED <<clipboard, panes, viewVars, dragVars>>

UndoFinish_Repush(t, ok) ==
  /\ IF ok
     THEN Reload(BothPanes, TRUE, Notice(UndoneText(t.action), "success"),
                 Notice("Undo failed", "error"))
     ELSE toast' = Notice("Undo failed", "error") /\ UNCHANGED <<panes, viewVars>>
  /\ Complete([op |-> "undo", empty |-> FALSE, ok |-> ok, type |-> t.action.type,
               entry |-> t.action, calls |-> t.g_calls, before |-> t.g_before,
               stackBefore |-> t.g_stack, fresh |-> t.g_fresh, pre |-> t.g_pre,
               faulted |-> t.g_faulted], clock)
  /\ tasks' = [tasks EXCEPT !["undo"] = IdleTask]
  /\ undoStack' = IF ok THEN undoStack ELSE Append(undoStack, t.action)
  /\ undoEnabled' = updateUndoButtons(undoStack')
  /\ UNCHANGED storeVars

UndoFinish(t, ok) ==
  /\ IF ok
     THEN Reload(BothPanes, TRUE, Notice(UndoneText(t.action), "success"),
                 Notice("Undo failed", "error"))
     ELSE toast' = Notice("Undo failed", "error") /\ UNCHANGED <<panes, viewVars>>
  /\ Complete([op |-> "undo", empty |-> FALSE, ok |-> ok, type |-> t.action.type,
               entry |-> t.action, calls |-> t.g_calls, before |-> t.g_before,
               stackBefore |-> t.g_stack, fresh |-> t.g_fresh, pre |-> t.g_pre,
               faulted |-> t.g_faulted], clock)
  /\ tasks' = [tasks EXCEPT !["undo"] = IdleTask]
  /\ UNCHANGED <<storeVars, undoVars>>

UndoIssue(t, c, fault, pc, cur, frames) ==
  LET r == StoreCall(store, c, fault)
  IN /\ Issue(r, fault)
     /\ tasks' = [tasks EXCEPT !["undo"] =
                   [t EXCEPT !.pc = pc, !.res = Outcome(r), !.cur = cur, !.frames = frames,
                             !.g_calls = Append(@, Logged(c, r)), !.g_faulted = @ \/ fault]]
     /\ UNCHANGED <<undoVars, toast, panes, viewVars, lastEvent, scen, calc>>

UndoResume(fault) ==
  /\ tasks["undo"].pc # "idle"
  /\ LET t == tasks["undo"]
     IN IF ~t.res.ok
        THEN fault = FALSE /\ UndoFinish(t, FALSE)
        ELSE CASE t.pc = "restore" ->
                    LET frames == ChildFrames(t.cur, t.res.value.id) \o t.frames
                    IN IF frames = <<>>
                       THEN fault = FALSE /\ UndoFinish(t, TRUE)
                       ELSE UndoIssue(t, CreateCall(frames[1].node, frames[1].parentId, frames[1].index),
                                      fault, "restore", frames[1].node, Tail(frames))
               [] t.pc = "lookup" ->
                    UndoIssue(t, RemoveCall(t.res.value, t.action.createdId),
                              fault, "inverse", NoValue, <<>>)
               [] t.pc = "inverse" -> fault = FALSE /\ UndoFinish(t, TRUE)
  /\ UNCHANGED <<clock, clipboard, dragVars, lastPush>>

\* ------------------------------------------------------------------
\* Suspended handlers
\* ------------------------------------------------------------------
\* the handler issues call c and is suspended at pc with its local bindings
StartTask(h, locals, c, fault, pc) ==
  LET r == StoreCall(store, c, fault)
  IN /\ Issue(r, fault)
     /\ tasks' = [tasks EXCEPT ![h] =
                   locals @@ [pc |-> pc, res |-> Outcome(r), g_calls |-> <<Logged(c, r)>>,
                              g_before |-> store, g_stack |-> undoStack,
                              g_faulted |-> fault]]

\* the resumed handler issues its next call and is suspended again
TaskIssue(h, t, c, fault, pc) ==
  LET r == StoreCall(store, c, fault)
  IN /\ Issue(r, fault)
     /\ tasks' = [tasks EXCEPT ![h] =
                   [t EXCEPT !.pc = pc, !.res = Outcome(r),
                             !.g_calls = Append(@, Logged(c, r)), !.g_faulted = @ \/ fault]]

\* the handler returns
TaskEnd(h, t, ok, more) ==
  /\ tasks' = [tasks EXCEPT ![h] = IdleTask]
  /\ Complete(more @@ [op |-> h, ok |-> ok, calls |-> t.g_calls, before |-> t.g_before,
                       stackBefore |-> t.g_stack, faulted |-> t.g_faulted], clock)

\* the rows a pane shows: the children its last reload rendered
ContentItems(p) == { shown.pane[p][i].id : i \in DOMAIN shown.pane[p] }

\* the row of item id in pane p
RowOf(p, id) == shown.pane[p][CHOOSE i \in DOMAIN shown.pane[p] : shown.pane[p][i].id = id]

\* the panes on screen
VisiblePanes == { p \in Panes : Visible(p) }

\* ------------------------------------------------------------------
\* Rename
\* ------------------------------------------------------------------
confirmRename(id, newTitle, fault) ==
  /\ tasks["rename"].pc = "idle"
  /\ ~dragging
  /\ trim(newTitle) # <<>>
  /\ StartTask("rename", [id |-> id, newTitle |-> trim(newTitle), originalTitle |-> <<>>],
               [op |-> "get", id |-> id], fault, "got")
  /\ clock' = clock + 1
  /\ lastEvent' = NoEvent
  /\ UNCHANGED <<undoVars, toast, clipboard, panes, viewVars, dragVars, lastPush, scen, calc>>

TitleUnchanged_Never(originalTitle, newTitle) == FALSE

TitleUnchanged(originalTitle, newTitle) == originalTitle = newTitle

RenameResume(fault) ==
  /\ tasks["rename"].pc # "idle"
  /\ LET t == tasks["rename"]
         info == [id |-> t.id, newTitle |-> t.newTitle]
     IN IF ~t.res.ok
        THEN /\ fault = FALSE
             /\ toast' = Notice("Failed to rename", "error")
             /\ TaskEnd("rename", t, FALSE, info @@ [noop |-> FALSE])
             /\ UNCHANGED <<storeVars, undoVars, panes, viewVars, lastPush>>
        ELSE CASE t.pc = "got" ->
                    IF TitleUnchanged(t.res.value.title, t.newTitle)
                    THEN /\ fault = FALSE
                         /\ TaskEnd("rename", t, FALSE, info @@ [noop |-> TRUE])
                         /\ UNCHANGED <<storeVars, undoVars, toast, panes, viewVars, lastPush>>
                    ELSE /\ TaskIssue("rename", [t EXCEPT !.originalTitle = t.res.value.title],
                                      [op |-> "update", id |-> t.id, title |-> t.newTitle],
                                      fault, "updated")
                         /\ UNCHANGED <<undoVars, toast, panes, viewVars, histVars>>
               [] t.pc = "updated" ->
                    /\ fault = FALSE
                    /\ Push(RenameAction(t.id, t.originalTitle, t.newTitle), t.g_before)
                    /\ Reload(BothPanes, TRUE, Notice("Renamed successfully", "success"),
                              Notice("Failed to rename", "error"))
                    /\ TaskEnd("rename", t, TRUE, info @@ [noop |-> FALSE])
                    /\ UNCHANGED storeVars
  /\ UNCHANGED <<clock, clipboard, dragVars>>

\* ------------------------------------------------------------------
\* Delete
\* ------------------------------------------------------------------
deleteItem(id, fault) ==
  /\ tasks["delete"].pc = "idle"
  /\ ~dragging
  /\ StartTask("delete", [id |-> id, node |-> NoValue, fullData |-> NoValue],
               [op |-> "get", id |-> id], fault, "got")
  /\ clock' = clock + 1
  /\ lastEvent' = NoEvent
  /\ UNCHANGED <<undoVars, toast, clipboard, panes, viewVars, dragVars, lastPush, scen, calc>>

DeleteResume(confirmed, fault) ==
  /\ tasks["delete"].pc # "idle"
  /\ LET t == tasks["delete"]
     IN CASE t.pc = "got" ->
               IF ~t.res.ok \/ ~confirmed
               THEN \* the first get is outside the try block: a rejection ends the handler
                    /\ fault = FALSE
                    /\ (~t.res.ok => confirmed)
                    /\ TaskEnd("delete", t, FALSE, [id |-> t.id])
                    /\ UNCHANGED <<storeVars, undoVars, toast, panes, viewVars, lastPush>>
               ELSE /\ TaskIssue("delete", [t EXCEPT !.node = t.res.value],
                                 [op |-> "getSubTree", id |-> t.id], fault, "captured")
                    /\ UNCHANGED <<undoVars, toast, panes, viewVars, histVars>>
          [] t.pc = "captured" /\ t.res.ok ->
               /\ confirmed
               /\ TaskIssue("delete", [t EXCEPT !.fullData = t.res.value],
                            [op |-> IF t.node.url = NoUrl THEN "removeTree" ELSE "remove",
                             id |-> t.id],
                            fault, "removed")
               /\ UNCHANGED <<undoVars, toast, panes, viewVars, histVars>>
          [] t.pc = "removed" /\ t.res.ok ->
               /\ confirmed /\ fault = FALSE
               /\ Push(DeleteAction(t.fullData, t.node), t.g_before)
               /\ Reload(BothPanes, TRUE, Notice("Deleted successfully", "success"),
                         Notice("Failed to delete", "error"))
               /\ TaskEnd("delete", t, TRUE, [id |-> t.id])
               /\ UNCHANGED storeVars
          [] t.pc \in {"captured", "removed"} /\ ~t.res.ok ->
               /\ confirmed /\ fault = FALSE
               /\ toast' = Notice("Failed to delete", "error")
               /\ TaskEnd("delete", t, FALSE, [id |-> t.id])
               /\ UNCHANGED <<storeVars, undoVars, panes, viewVars, lastPush>>
  /\ UNCHANGED <<clock, clipboard, dragVars>>

\* ------------------------------------------------------------------
\* Copy and paste
\* ------------------------------------------------------------------
\* handleContextAction, case 'copy'
copyItem(targetId, paneNum) ==
  /\ ~dragging
  /\ clipboard' = [action |-> "copy", id |-> targetId, sourcePane |-> paneNum]
  /\ toast' = Notice("Item copied to clipboard", "info")
  /\ clock' = clock + 1
  /\ Complete([op |-> "copy", ok |-> TRUE, calls |-> <<>>, before |-> store,
               stackBefore |-> undoStack,
               faulted |-> FALSE], clock + 1)
  /\ UNCHANGED <<storeVars, undoVars, panes, viewVars, dragVars, tasks, lastPush>>

CopyTitle(title) == title \o Word("(copy)")

pasteItem(paneNum, fault) ==
  /\ tasks["paste"].pc = "idle"
  /\ ~dragging
  /\ clipboard # NoValue
  /\ StartTask("paste", [targetFolderId |-> panes[paneNum].currentFolderId],
               [op |-> "get", id |-> clipboard.id], fault, "got")
  /\ clock' = clock + 1
  /\ lastEvent' = NoEvent
  /\ UNCHANGED <<undoVars, toast, clipboard, panes, viewVars, dragVars, lastPush, scen, calc>>

PasteResume(fault) ==
  /\ tasks["paste"].pc # "idle"
  /\ LET t == tasks["paste"]
     IN IF ~t.res.ok
        THEN /\ fault = FALSE
             /\ toast' = Notice("Paste failed", "error")
             /\ TaskEnd("paste", t, FALSE, [createdId |-> NoId])
             /\ UNCHANGED <<storeVars, undoVars, clipboard, panes, viewVars, lastPush>>
        ELSE CASE t.pc = "got" ->
                    /\ TaskIssue("paste", t,
                                 [op |-> "create", parentId |-> t.targetFolderId,
                                  title |-> IF t.res.value.url # NoUrl
                                            THEN t.res.value.title
                                            ELSE CopyTitle(t.res.value.title),
                                  url |-> t.res.value.url, index |-> NoIndex],
                                 fault, "created")
                    /\ UNCHANGED <<undoVars, toast, clipboard, panes, viewVars, histVars>>
               [] t.pc = "created" ->
                    /\ fault = FALSE
                    /\ Push(PasteAction(t.res.value), t.g_before)
                    /\ Reload(BothPanes, TRUE, Notice("Item copied", "success"),
                              Notice("Paste failed", "error"))
                    /\ clipboard' = NoValue
                    /\ TaskEnd("paste", t, TRUE, [createdId |-> t.res.value.id])
                    /\ UNCHANGED storeVars
  /\ UNCHANGED <<clock, dragVars>>

\* ------------------------------------------------------------------
\* Drag and drop
\* ------------------------------------------------------------------
\* getBoundingClientRect of the target row and the pointer's clientY: a row
\* at top 100 of height 40, the pointer in its top quarter, in its middle
\* and in its bottom quarter
RowRect == [top |-> 100, height |-> 40]
PointerYs == {105, 120, 138}
AnyY == CHOOSE y \in PointerYs : TRUE

\* rendered elements: a row of a pane (.content-item), a row of the folder
\* tree (.tree-item, no isFolder attribute), a pane's content area
ContentEl(p, id) ==
  [kind |-> "content", id |-> id, isFolder |-> RowOf(p, id).isFolder, pane |-> p]
TreeEl(id) == [kind |-> "tree", id |-> id, isFolder |-> FALSE, pane |-> 0]
PaneEl(p) == [kind |-> "pane", id |-> NoId, isFolder |-> FALSE, pane |-> p]
\* an element that is neither a row nor a content area nor inside one
Background == [kind |-> "other", id |-> NoId, isFolder |-> FALSE, pane |-> 0]
\* an element inside a row (its icon, its title)
InnerEl(row) == [kind |-> "inner", id |-> NoId, isFolder |-> FALSE, pane |-> row.pane,
                 of |-> row]

\* target.contains(el): the element itself, an element inside it, and for a
\* content area the rows rendered in it
Contains(target, el) ==
  LET row == IF el.kind = "inner" THEN el.of ELSE el
  IN \/ row = target
     \/ target.kind = "pane" /\ row.kind = "content" /\ row.pane = target.pane

\* the selector of the full-page dragleave listener also matches .pane-content
Candidates(variant) ==
  IF variant = "popup" THEN {"content", "tree"} ELSE {"content", "tree", "pane"}

\* el.closest(selector): the nearest candidate at or above el
closestCandidate(variant, el) ==
  LET row == IF el.kind = "inner" THEN el.of ELSE el
  IN IF row.kind \in Candidates(variant)
     THEN row
     ELSE IF row.kind = "content" /\ "pane" \in Candidates(variant)
     THEN PaneEl(row.pane)
     ELSE NoValue

\* the folder tree shows the top-level folders and, below the expanded ones
\* ('1' and '2'), their child folders
TreeItems ==
  {BarId, OtherId} \cup
  { id \in DOMAIN shown.tree :
      \E top \in {BarId, OtherId} :
        \E i \in DOMAIN shown.tree[top].folders : shown.tree[top].folders[i] = id }

Rows ==
  UNION { { ContentEl(p, id) : id \in ContentItems(p) } : p \in VisiblePanes }
    \cup { TreeEl(id) : id \in TreeItems }

\* the elements a pointer can leave or enter: the rows, what is inside them,
\* the content areas and the rest of the page
Elements ==
  Rows \cup { InnerEl(r) : r \in Rows } \cup { PaneEl(p) : p \in VisiblePanes }
    \cup {Background}

\* a pointer event while dragging item d: the row under the pointer (hit), the
\* row findNearbyDropTarget returns when d is excluded (near), the pane whose
\* content area holds the pointer (0: none), the pointer's clientY and the
\* bounding rectangle of the resolved row; the handlers read the pane only when
\* there is no row, and clientY and the rectangle only when there is one
PointerEvents(d) ==
  LET others == { r \in Rows : r.id # d }
      own == { r \in Rows : r.id = d }
  IN { [hit |-> r, near |-> r, pane |-> r.pane, clientY |-> y, rect |-> RowRect] :
         r \in others, y \in PointerYs }
     \cup { [hit |-> r, near |-> n, pane |-> r.pane, clientY |-> y, rect |-> RowRect] :
              r \in own, n \in others \cup {NoValue}, y \in PointerYs }
     \cup { [hit |-> NoValue, near |-> n, pane |-> n.pane, clientY |-> y, rect |-> RowRect] :
              n \in others, y \in PointerYs }
     \cup { [hit |-> NoValue, near |-> NoValue, pane |-> p, clientY |-> AnyY, rect |-> RowRect] :
              p \in {0} \cup VisiblePanes }

\* dragover never searches nearby when a row is under the pointer
DragoverEvents(d) ==
  { e \in PointerEvents(d) : e.hit # NoValue /\ e.hit.id = d => e.near = NoValue /\ e.clientY = AnyY }

\* drop reads the event only when no hover target with an id is recorded
DropEvents(d) ==
  IF lastDropTarget # NoValue /\ lastDropTarget.id # NoId
  THEN { [hit |-> NoValue, near |-> NoValue, pane |-> 0, clientY |-> AnyY, rect |-> RowRect] }
  ELSE PointerEvents(d)

\* heightRatio = relativeY / rect.height is compared with 0.25, 0.75 and 0.5:
\* the comparisons are made here on relativeY and multiples of the height
getDropPosition_Closed(e, target) ==
  LET relativeY == e.clientY - e.rect.top
  IN IF target.isFolder
     THEN IF 4 * relativeY <= e.rect.height THEN "before"
          ELSE IF 4 * relativeY >= 3 * e.rect.height THEN "after"
          ELSE "into"
     ELSE IF 2 * relativeY <= e.rect.height THEN "before" ELSE "after"

getDropPosition(e, target) ==
  LET relativeY == e.clientY - e.rect.top
  IN IF target.isFolder
     THEN IF 4 * relativeY < e.rect.height THEN "before"
          ELSE IF 4 * relativeY > 3 * e.rect.height THEN "after"
          ELSE "into"
     ELSE IF 2 * relativeY < e.rect.height THEN "before" ELSE "after"

updateDropIndicator(target, position) ==
  IF target = NoValue \/ position = "none"
  THEN NoValue
  ELSE [el |-> target,
        class |-> CASE position = "into" -> "drag-over"
                    [] position = "before" -> "drop-before"
                    [] position = "after" -> "drop-after"]

dragstart(item) ==
  /\ ~dragging
  /\ dragging' = TRUE
  /\ draggedItem' = [id |-> item.id, pane |-> item.pane]
  /\ clock' = clock + 1
  /\ lastEvent' = NoEvent
  /\ UNCHANGED <<storeVars, undoVars, toast, clipboard, panes, viewVars, lastDropTarget,
                 lastDropPosition, dropIndicator, tasks, lastPush, scen, calc>>

dragend_KeepTarget ==
  /\ dragging
  /\ dragging' = FALSE
  /\ draggedItem' = NoValue
  /\ dropIndicator' = NoValue
  /\ UNCHANGED <<lastDropTarget, lastDropPosition>>
  /\ UNCHANGED <<storeVars, clock, undoVars, toast, clipboard, panes, viewVars, tasks, histVars>>

dragend ==
  /\ dragging
  /\ dragging' = FALSE
  /\ draggedItem' = NoValue
  /\ lastDropTarget' = NoValue
  /\ lastDropPosition' = "none"
  /\ dropIndicator' = NoValue
  /\ UNCHANGED <<storeVars, clock, undoVars, toast, clipboard, panes, viewVars, tasks, histVars>>

\* the hover state the listeners keep: lastDropTarget, lastDropPosition and the
\* element that carries an indicator class
Recorded == [el |-> lastDropTarget, position |-> lastDropPosition,
             indicator |-> dropIndicator]

HoverAfter_KeepOnMiss(e, dragged, rec) ==
  IF dragged = NoValue
  THEN rec
  ELSE LET target == IF e.hit # NoValue THEN e.hit ELSE e.near
           paneContent == IF target = NoValue /\ e.pane # 0 THEN PaneEl(e.pane) ELSE NoValue
       IN IF target # NoValue /\ target.id # dragged.id
          THEN LET position == getDropPosition(e, target)
               IN IF rec.el # target \/ rec.position # position
                  THEN [el |-> target, position |-> position,
                        indicator |-> updateDropIndicator(target, position)]
                  ELSE rec
          ELSE IF paneContent # NoValue
          THEN IF rec.el # paneContent
               THEN [el |-> paneContent, position |-> "into",
                     indicator |-> [el |-> paneContent, class |-> "drag-over"]]
               ELSE rec
          ELSE rec

\* the dragover listener: the hover state after event e, from the dragged item
\* (none: no drag is live) and the hover state before it
HoverAfter(e, dragged, rec) ==
  IF dragged = NoValue
  THEN rec
  ELSE LET target == IF e.hit # NoValue THEN e.hit ELSE e.near
           paneContent == IF target = NoValue /\ e.pane # 0 THEN PaneEl(e.pane) ELSE NoValue
       IN IF target # NoValue /\ target.id # dragged.id
          THEN LET position == getDropPosition(e, target)
               IN IF rec.el # target \/ rec.position # position
                  THEN [el |-> target, position |-> position,
                        indicator |-> updateDropIndicator(target, position)]
                  ELSE rec
          ELSE IF paneContent # NoValue
          THEN IF rec.el # paneContent
               THEN [el |-> paneContent, position |-> "into",
                     indicator |-> [el |-> paneContent, class |-> "drag-over"]]
               ELSE rec
          ELSE IF rec.el # NoValue
          THEN [el |-> NoValue, position |-> "none",
                indicator |-> updateDropIndicator(NoValue, "none")]
          ELSE rec

dragover(e) ==
  /\ draggedItem # NoValue
  /\ LET after == HoverAfter(e, draggedItem, Recorded)
     IN /\ lastDropTarget' = after.el
        /\ lastDropPosition' = after.position
        /\ dropIndicator' = after.indicator
  /\ UNCHANGED <<storeVars, clock, undoVars, toast, clipboard, panes, viewVars, draggedItem,
                 dragging, tasks, histVars>>

LeaveAfter_IgnoreRelated(variant, left, related, rec) ==
  LET target == closestCandidate(variant, left)
  IN IF target = NoValue
     THEN rec
     ELSE [el |-> IF rec.el = target THEN NoValue ELSE rec.el,
           position |-> IF rec.el = target THEN "none" ELSE rec.position,
           indicator |-> IF rec.indicator # NoValue /\ rec.indicator.el = target
                         THEN NoValue ELSE rec.indicator]

\* the dragleave listener: the hover state after the pointer left element
\* left for element related (none: it left the window)
LeaveAfter(variant, left, related, rec) ==
  LET target == closestCandidate(variant, left)
      newTarget == IF related = NoValue THEN NoValue ELSE closestCandidate(variant, related)
  IN IF target = NoValue
     THEN rec
     ELSE IF related # NoValue /\ Contains(target, related)
     THEN rec
     ELSE IF newTarget # NoValue /\ newTarget # target
     THEN rec
     ELSE [el |-> IF rec.el = target THEN NoValue ELSE rec.el,
           position |-> IF rec.el = target THEN "none" ELSE rec.position,
           indicator |-> IF rec.indicator # NoValue /\ rec.indicator.el = target
                         THEN NoValue ELSE rec.indicator]

dragleave(left, related) ==
  /\ LET after == LeaveAfter("page", left, related, Recorded)
     IN /\ lastDropTarget' = after.el
        /\ lastDropPosition' = after.position
        /\ dropIndicator' = after.indicator
  /\ UNCHANGED <<storeVars, clock, undoVars, toast, clipboard, panes, viewVars, draggedItem,
                 dragging, tasks, histVars>>

DragCleanup_KeepTarget ==
  /\ dropIndicator' = updateDropIndicator(NoValue, "none")
  /\ draggedItem' = NoValue
  /\ lastDropPosition' = "none"
  /\ UNCHANGED <<lastDropTarget, dragging>>

DragCleanup ==
  /\ dropIndicator' = updateDropIndicator(NoValue, "none")
  /\ draggedItem' = NoValue
  /\ lastDropTarget' = NoValue
  /\ lastDropPosition' = "none"
  /\ UNCHANGED dragging

DropTarget_HitFirst(e, draggedItemId) ==
  IF e.hit # NoValue /\ e.hit.id # draggedItemId
  THEN [el |-> e.hit, position |-> getDropPosition(e, e.hit), strategy |-> 2]
  ELSE IF lastDropTarget # NoValue /\ lastDropTarget.id # NoId
  THEN [el |-> lastDropTarget, position |-> lastDropPosition, strategy |-> 1]
  ELSE IF e.near # NoValue
  THEN [el |-> e.near, position |-> getDropPosition(e, e.near), strategy |-> 3]
  ELSE [el |-> NoValue, position |-> "none", strategy |-> 0]

\* the target and position the drop handler settles on (strategies 1 to 3)
DropTarget(e, draggedItemId) ==
  IF lastDropTarget # NoValue /\ lastDropTarget.id # NoId
  THEN [el |-> lastDropTarget, position |-> lastDropPosition, strategy |-> 1]
  ELSE IF e.hit # NoValue /\ e.hit.id # draggedItemId
  THEN [el |-> e.hit, position |-> getDropPosition(e, e.hit), strategy |-> 2]
  ELSE IF e.near # NoValue
  THEN [el |-> e.near, position |-> getDropPosition(e, e.near), strategy |-> 3]
  ELSE [el |-> NoValue, position |-> "none", strategy |-> 0]

\* what the drop handler does: strategy 0 is the drop without a target,
\* strategy 4 the move to the current folder of the pane under the pointer
ResolveDrop(e, draggedItemId) ==
  LET found == DropTarget(e, draggedItemId)
      currentFolderId == IF e.pane # 0 THEN panes[e.pane].currentFolderId ELSE NoId
  IN IF found.el = NoValue /\ currentFolderId # NoId /\ currentFolderId # draggedItemId
     THEN [strategy |-> 4, targetId |-> currentFolderId, isTargetFolder |-> TRUE,
           position |-> "into"]
     ELSE IF found.el = NoValue \/ found.position = "none"
     THEN [strategy |-> 0, targetId |-> NoId, isTargetFolder |-> FALSE, position |-> "none"]
     ELSE [strategy |-> found.strategy, targetId |-> found.el.id,
           isTargetFolder |-> found.el.isFolder, position |-> found.position]

drop(e, fault) ==
  /\ tasks["drop"].pc = "idle"
  /\ draggedItem # NoValue
  /\ LET draggedItemId == draggedItem.id
         plan == ResolveDrop(e, draggedItemId)
     IN IF plan.strategy = 4
        THEN \* strategy 4: move to the current folder of the pane under the pointer
             /\ StartTask("drop", [draggedItemId |-> draggedItemId, targetId |-> plan.targetId,
                                   isTargetFolder |-> TRUE, dropPosition |-> "into",
                                   strategy4 |-> TRUE,
                                   originalParentId |-> NoId, originalIndex |-> NoIndex,
                                   g_ended |-> FALSE, g_session |-> clock],
                          [op |-> "get", id |-> draggedItemId], fault, "got")
             /\ UNCHANGED <<dragVars, histVars>>
        ELSE IF plan.strategy = 0
        THEN /\ fault = FALSE
             /\ DragCleanup
             /\ Complete([op |-> "drop", ok |-> FALSE, noTarget |-> TRUE, calls |-> <<>>,
                          session |-> clock,
                          hover |-> lastDropTarget, indicator |-> dropIndicator,
                          before |-> store,
                          stackBefore |-> undoStack, faulted |-> FALSE], clock)
             /\ UNCHANGED <<storeVars, tasks, lastPush>>
        ELSE /\ StartTask("drop", [draggedItemId |-> draggedItemId, targetId |-> plan.targetId,
                                   isTargetFolder |-> plan.isTargetFolder,
                                   dropPosition |-> plan.position, strategy4 |-> FALSE,
                                   originalParentId |-> NoId, originalIndex |-> NoIndex,
                                   g_ended |-> FALSE, g_session |-> clock],
                          [op |-> "get", id |-> draggedItemId], fault, "got")
             /\ UNCHANGED <<dragVars, histVars>>
  /\ UNCHANGED <<clock, undoVars, toast, clipboard, panes, viewVars>>

ReorderIndex_NoShift(targetNode, dropPosition, originalParentId, originalIndex) ==
  IF dropPosition = "after" THEN targetNode.index + 1 ELSE targetNode.index

\* the index a reorder drop asks the store for
ReorderIndex(targetNode, dropPosition, originalParentId, originalIndex) ==
  LET targetIndex == IF dropPosition = "after" THEN targetNode.index + 1 ELSE targetNode.index
  IN IF originalParentId = targetNode.parentId /\ originalIndex < targetIndex
     THEN targetIndex - 1
     ELSE targetIndex

\* the id the suspended handler reads when the session state has been reset
CapturedItem_Shared(t) == IF draggedItem = NoValue THEN NoId ELSE draggedItem.id

\* the id the handler copied into a local before its first await
CapturedItem(t) == t.draggedItemId

DropResume(fault) ==
  /\ tasks["drop"].pc # "idle"
  /\ LET t == tasks["drop"]
         info == [id |-> t.draggedItemId, noTarget |-> FALSE, ended |-> t.g_ended,
                  session |-> t.g_session,
                  targetId |-> t.targetId, dropPosition |-> t.dropPosition,
                  reorder |-> ~(t.strategy4 \/ (t.dropPosition = "into" /\ t.isTargetFolder))]
     IN IF ~t.res.ok
        THEN /\ fault = FALSE
             /\ toast' = Notice("Failed to move item", "error")
             /\ DragCleanup
             /\ TaskEnd("drop", t, FALSE, info)
             /\ UNCHANGED <<storeVars, undoVars, panes, viewVars, lastPush>>
        ELSE CASE t.pc = "got" ->
                    LET t2 == [t EXCEPT !.originalParentId = t.res.value.parentId,
                                        !.originalIndex = t.res.value.index,
                                        !.g_ended = draggedItem = NoValue]
                    IN /\ IF t.strategy4 \/ (t.dropPosition = "into" /\ t.isTargetFolder)
                          THEN TaskIssue("drop", t2,
                                         [op |-> "move", id |-> CapturedItem(t),
                                          parentId |-> t.targetId, index |-> NoIndex],
                                         fault, "moved")
                          ELSE TaskIssue("drop", t2, [op |-> "get", id |-> t.targetId],
                                         fault, "gotTarget")
                       /\ UNCHANGED <<undoVars, toast, dragVars, panes, viewVars, histVars>>
               [] t.pc = "gotTarget" ->
                    /\ TaskIssue("drop", [t EXCEPT !.g_ended = draggedItem = NoValue],
                                 [op |-> "move", id |-> CapturedItem(t),
                                  parentId |-> t.res.value.parentId,
                                  index |-> ReorderIndex(t.res.value, t.dropPosition,
                                                         t.originalParentId, t.originalIndex)],
                                 fault, "moved")
                    /\ UNCHANGED <<undoVars, toast, dragVars, panes, viewVars, histVars>>
               [] t.pc = "moved" ->
                    /\ fault = FALSE
                    /\ Push(MoveAction(CapturedItem(t), t.originalParentId, t.originalIndex),
                            t.g_before)
                    /\ Reload(BothPanes, TRUE,
                              Notice(IF t.strategy4 THEN "Item moved successfully"
                                     ELSE IF t.dropPosition = "into"
                                     THEN "Item moved to folder successfully"
                                     ELSE "Item reordered successfully", "success"),
                              Notice("Failed to move item", "error"))
                    /\ DragCleanup
                    /\ TaskEnd("drop", t, TRUE, info)
                    /\ UNCHANGED storeVars
  /\ UNCHANGED <<clock, clipboard>>

\* ------------------------------------------------------------------
\* Drag and drop of the popup view (popup/popup.js); the view shows the folder
\* of pane 1, its status line is the notice
\* ------------------------------------------------------------------
\* the rows of the popup: its content rows and its folder tree
PopupRows == { ContentEl(1, id) : id \in ContentItems(1) } \cup { TreeEl(id) : id \in TreeItems }

\* closest('.content-item[data-is-folder="true"], .tree-item')
PopupDropTargets == { r \in PopupRows : r.kind = "tree" \/ r.isFolder }

\* state.draggedItem = item.dataset.id
popupDragstart(item) ==
  /\ ~dragging
  /\ dragging' = TRUE
  /\ draggedItem' = [id |-> item.id]
  /\ clock' = clock + 1
  /\ lastEvent' = NoEvent
  /\ UNCHANGED <<storeVars, undoVars, toast, clipboard, panes, viewVars, lastDropTarget,
                 lastDropPosition, dropIndicator, tasks, lastPush, scen, calc>>

popupDragend ==
  /\ dragging
  /\ dragging' = FALSE
  /\ draggedItem' = NoValue
  /\ dropIndicator' = NoValue
  /\ UNCHANGED <<storeVars, clock, undoVars, toast, clipboard, panes, viewVars, lastDropTarget,
                 lastDropPosition, tasks, histVars>>

\* the drop listener up to its first await; g_item: history, the item that
\* was dragged when the drop arrived
popupDrop(target, fault) ==
  /\ tasks["popupDrop"].pc = "idle"
  /\ draggedItem # NoValue
  /\ target.id # draggedItem.id
  /\ StartTask("popupDrop", [targetId |-> target.id, originalParentId |-> NoId,
                             originalIndex |-> NoIndex, g_item |-> draggedItem.id,
                             g_ended |-> FALSE],
               [op |-> "get", id |-> draggedItem.id], fault, "got")
  /\ UNCHANGED <<clock, undoVars, toast, clipboard, panes, viewVars, dragVars, histVars>>

\* state.draggedItem as the resumed handler reads it: null once a drag-end or
\* an earlier drop's cleanup has reset it
PopupItem(t) == IF draggedItem = NoValue THEN NoId ELSE draggedItem.id

\* refresh(): the folder tree, then the content
PopupRefresh(okNotice, failNotice) ==
  LET r == loadPaneContent(loadFolderTree(shown, store).shown, store, panes, 1)
  IN /\ shown' = r.shown
     /\ toast' = IF r.ok THEN okNotice ELSE failNotice
     /\ UNCHANGED <<panes, viewMode>>

\* the cleanup after the try block
PopupDropCleanup ==
  /\ dropIndicator' = NoValue
  /\ draggedItem' = NoValue
  /\ UNCHANGED <<lastDropTarget, lastDropPosition, dragging>>

\* the drop listener resumed; a move of a null id is rejected before it
\* reaches the store
PopupDropResume(fault) ==
  /\ tasks["popupDrop"].pc # "idle"
  /\ LET t == tasks["popupDrop"]
         info == [id |-> t.g_item, targetId |-> t.targetId, ended |-> t.g_ended]
     IN IF ~t.res.ok
        THEN /\ fault = FALSE
             /\ toast' = Notice("Failed to move item", "error")
             /\ PopupDropCleanup
             /\ TaskEnd("popupDrop", t, FALSE, info)
             /\ UNCHANGED <<storeVars, undoVars, panes, viewVars, lastPush>>
        ELSE CASE t.pc = "got" ->
                    /\ TaskIssue("popupDrop",
                                 [t EXCEPT !.originalParentId = t.res.value.parentId,
                                           !.originalIndex = t.res.value.index,
                                           !.g_ended = PopupItem(t) # t.g_item],
                                 [op |-> "move", id |-> PopupItem(t),
                                  parentId |-> t.targetId, index |-> NoIndex],
                                 fault, "moved")
                    /\ UNCHANGED <<undoVars, toast, dragVars, panes, viewVars, histVars>>
               [] t.pc = "moved" ->
                    /\ fault = FALSE
                    /\ Push(MoveAction(PopupItem(t), t.originalParentId, t.originalIndex),
                            t.g_before)
                    /\ PopupRefresh(Notice("Item moved successfully", "success"),
                                    Notice("Failed to move item", "error"))
                    /\ PopupDropCleanup
                    /\ TaskEnd("popupDrop", t, TRUE, info)
                    /\ UNCHANGED storeVars
  /\ UNCHANGED <<clock, clipboard>>

\* ------------------------------------------------------------------
\* Pane navigation, selection, refresh, view mode
\* ------------------------------------------------------------------
\* history: what the panes were when the handler was invoked
NavEvent(op, paneNum, folderId) ==
  [op |-> op, pane |-> paneNum, folderId |-> folderId, ok |-> TRUE, calls |-> <<>>,
   panesBefore |-> panes, stackBefore |-> undoStack, faulted |-> FALSE]

\* history: the pane before a 'back' that moved it, when that 'back' is the
\* handler that ran last
AfterBack(paneNum) ==
  IF /\ lastEvent.op = "back"
     /\ lastEvent.pane = paneNum
     /\ lastEvent.panesBefore[paneNum].historyIndex > 0
  THEN lastEvent.panesBefore[paneNum]
  ELSE NoValue

navigatePane_StaleFolder(ps, folderId, addToHistory) ==
  LET kept == SubSeq(ps.history, 1, ps.historyIndex + 1)
  IN [currentFolderId |-> IF addToHistory THEN folderId ELSE ps.currentFolderId,
      selectedItems |-> {},
      history |-> IF addToHistory THEN Append(kept, folderId) ELSE ps.history,
      historyIndex |-> IF addToHistory THEN Len(kept) ELSE ps.historyIndex]

navigatePane_KeepForward(ps, folderId, addToHistory) ==
  [currentFolderId |-> folderId,
   selectedItems |-> {},
   history |-> IF addToHistory THEN Append(ps.history, folderId) ELSE ps.history,
   historyIndex |-> IF addToHistory THEN Len(ps.history) ELSE ps.historyIndex]

\* navigatePane, up to its await: the pane's state after the navigation;
\* history.slice(0, historyIndex + 1), push, historyIndex = history.length - 1
navigatePane(ps, folderId, addToHistory) ==
  LET kept == SubSeq(ps.history, 1, ps.historyIndex + 1)
  IN [currentFolderId |-> folderId,
      selectedItems |-> {},
      history |-> IF addToHistory THEN Append(kept, folderId) ELSE ps.history,
      historyIndex |-> IF addToHistory THEN Len(kept) ELSE ps.historyIndex]

\* navigatePane from its await on: the pane is reloaded
Navigate(paneNum, ps, folderId, addToHistory) ==
  LET after == [panes EXCEPT ![paneNum] = navigatePane(ps, folderId, addToHistory)]
  IN /\ panes' = after
     /\ shown' = loadPaneContent(shown, store, after, paneNum).shown
     /\ UNCHANGED viewMode

\* the ancestors of a pane's folder below the root: the segments of its address
\* path but the last
PathSegments(p) ==
  IF Exists(store, panes[p].currentFolderId)
  THEN { a \in DOMAIN store.nodes :
           /\ a # RootId /\ a # panes[p].currentFolderId
           /\ panes[p].currentFolderId \in SubtreeIds(store, a) }
  ELSE {}

\* the folders a click can open in pane p: a folder row of the pane (double
\* click, 'open'), a row of the folder tree once the pane is the active one, a
\* segment of the address path, a row of the other pane ('open-other-pane')
NavTargets(p) ==
  { id \in ContentItems(p) : RowOf(p, id).isFolder }
    \cup TreeItems
    \cup PathSegments(p)
    \cup (IF viewMode = "split" THEN UNION { ContentItems(q) : q \in Panes \ {p} } ELSE {})

\* a click that navigates pane paneNum to folderId
open(paneNum, folderId) ==
  /\ ~dragging
  /\ Navigate(paneNum, panes[paneNum], folderId, TRUE)
  /\ clock' = clock + 1
  /\ Complete(NavEvent("navigate", paneNum, folderId), clock + 1)
  /\ UNCHANGED <<storeVars, undoVars, toast, clipboard, dragVars, tasks, lastPush>>

back_Wrap(paneNum) ==
  /\ ~dragging
  /\ LET ps == [panes[paneNum] EXCEPT
                 !.historyIndex = IF @ > 0 THEN @ - 1 ELSE Len(panes[paneNum].history) - 1]
     IN Navigate(paneNum, ps, ps.history[ps.historyIndex + 1], FALSE)
  /\ clock' = clock + 1
  /\ Complete(NavEvent("back", paneNum, NoId), clock + 1)
  /\ UNCHANGED <<storeVars, undoVars, toast, clipboard, dragVars, tasks, lastPush>>

\* handlePaneAction, case 'back'
back(paneNum) ==
  /\ ~dragging
  /\ IF panes[paneNum].historyIndex > 0
     THEN LET ps == [panes[paneNum] EXCEPT !.historyIndex = @ - 1]
          IN Navigate(paneNum, ps, ps.history[ps.historyIndex + 1], FALSE)
     ELSE UNCHANGED <<panes, viewVars>>
  /\ clock' = clock + 1
  /\ Complete(NavEvent("back", paneNum, NoId), clock + 1)
  /\ UNCHANGED <<storeVars, undoVars, toast, clipboard, dragVars, tasks, lastPush>>

forward_Unguarded(paneNum) ==
  /\ ~dragging
  /\ LET ps == [panes[paneNum] EXCEPT !.historyIndex = @ + 1]
     IN Navigate(paneNum, ps,
                 IF ps.historyIndex < Len(ps.history)
                 THEN ps.history[ps.historyIndex + 1]
                 ELSE ps.currentFolderId, FALSE)
  /\ clock' = clock + 1
  /\ Complete(NavEvent("forward", paneNum, NoId) @@ [afterBack |-> AfterBack(paneNum)],
              clock + 1)
  /\ UNCHANGED <<storeVars, undoVars, toast, clipboard, dragVars, tasks, lastPush>>

\* handlePaneAction, case 'forward'
forward(paneNum) ==
  /\ ~dragging
  /\ IF panes[paneNum].historyIndex < Len(panes[paneNum].history) - 1
     THEN LET ps == [panes[paneNum] EXCEPT !.historyIndex = @ + 1]
          IN Navigate(paneNum, ps, ps.history[ps.historyIndex + 1], FALSE)
     ELSE UNCHANGED <<panes, viewVars>>
  /\ clock' = clock + 1
  /\ Complete(NavEvent("forward", paneNum, NoId) @@ [afterBack |-> AfterBack(paneNum)],
              clock + 1)
  /\ UNCHANGED <<storeVars, undoVars, toast, clipboard, dragVars, tasks, lastPush>>

AtRoot(folderId) == folderId = RootId

\* handlePaneAction, case 'up': nothing at the root, else the store is asked for
\* the pane's folder
up(paneNum, fault) ==
  /\ tasks["up"].pc = "idle"
  /\ ~dragging
  /\ clock' = clock + 1
  /\ IF AtRoot(panes[paneNum].currentFolderId)
     THEN /\ fault = FALSE
          /\ Complete(NavEvent("up", paneNum, NoId) @@ [atRoot |-> TRUE], clock + 1)
          /\ UNCHANGED <<storeVars, tasks>>
     ELSE /\ StartTask("up", [paneNum |-> paneNum, g_panes |-> panes],
                       [op |-> "get", id |-> panes[paneNum].currentFolderId], fault, "got")
          /\ lastEvent' = NoEvent
          /\ UNCHANGED <<scen, calc>>
  /\ UNCHANGED <<undoVars, toast, clipboard, panes, viewVars, dragVars, lastPush>>

UpTarget_Self(node) == node.id

\* nodes[0].parentId
UpTarget(node) == node.parentId

\* 'up' resumed: a rejected get ends the handler, else navigatePane to the parent
UpResume ==
  /\ tasks["up"].pc = "got"
  /\ LET t == tasks["up"]
         found == t.res.ok /\ t.res.value.parentId # NoId
     IN /\ IF found
           THEN Navigate(t.paneNum, panes[t.paneNum], UpTarget(t.res.value), TRUE)
           ELSE UNCHANGED <<panes, viewVars>>
        /\ Complete([op |-> "up", pane |-> t.paneNum, atRoot |-> FALSE, ok |-> found,
                     folderId |-> IF found THEN UpTarget(t.res.value) ELSE NoId,
                     calls |-> t.g_calls, panesBefore |-> t.g_panes,
                     before |-> t.g_before, stackBefore |-> t.g_stack,
                     faulted |-> t.g_faulted], clock)
  /\ tasks' = [tasks EXCEPT !["up"] = IdleTask]
  /\ UNCHANGED <<storeVars, clock, undoVars, toast, clipboard, dragVars, lastPush>>

refresh_ClearLog(paneNum) ==
  /\ ~dragging
  /\ LET r == loadPaneContent(shown, store, panes, paneNum)
     IN /\ shown' = r.shown
        /\ toast' = IF r.ok THEN Notice("Refreshed", "success") ELSE toast
  /\ undoStack' = <<>>
  /\ undoEnabled' = updateUndoButtons(undoStack')
  /\ clock' = clock + 1
  /\ Complete(NavEvent("refresh", paneNum, NoId), clock + 1)
  /\ UNCHANGED <<storeVars, clipboard, panes, viewMode, dragVars, tasks, lastPush>>

\* handlePaneAction, case 'refresh'; the notice follows the reload
refresh(paneNum) ==
  /\ ~dragging
  /\ LET r == loadPaneContent(shown, store, panes, paneNum)
     IN /\ shown' = r.shown
        /\ toast' = IF r.ok THEN Notice("Refreshed", "success") ELSE toast
  /\ clock' = clock + 1
  /\ Complete(NavEvent("refresh", paneNum, NoId), clock + 1)
  /\ UNCHANGED <<storeVars, undoVars, clipboard, panes, viewMode, dragVars, tasks, lastPush>>

\* selectItem, toggleItemSelection, clearSelection
Selections(p) ==
  { {id} : id \in ContentItems(p) }
    \cup { IF id \in panes[p].selectedItems
           THEN panes[p].selectedItems \ {id}
           ELSE panes[p].selectedItems \cup {id} :
             id \in { i \in ContentItems(p) : RowOf(p, i).isFolder } }
    \cup { {} }

\* a click in the content area of pane paneNum
select(paneNum, items) ==
  /\ ~dragging
  /\ panes' = [panes EXCEPT ![paneNum].selectedItems = items]
  /\ clock' = clock + 1
  /\ Complete(NavEvent("select", paneNum, NoId), clock + 1)
  /\ UNCHANGED <<storeVars, undoVars, toast, clipboard, viewVars, dragVars, tasks, lastPush>>

ViewModes == {"single", "split"}

setViewMode(mode) ==
  /\ ~dragging
  /\ viewMode' = mode
  /\ toast' = IF mode = "split"
              THEN Notice("Split view enabled - drag items between panes!", "info")
              ELSE toast
  /\ clock' = clock + 1
  /\ Complete(NavEvent("viewMode", 0, NoId), clock + 1)
  /\ UNCHANGED <<storeVars, undoVars, clipboard, panes, shown, dragVars, tasks, lastPush>>

\* ------------------------------------------------------------------
\* Specification: the handlers run one at a time
\* ------------------------------------------------------------------
Start ==
  \/ \E p \in VisiblePanes, t \in InputTitles, f \in Faults : confirmNewFolder(p, t, f)
  \/ \E p \in VisiblePanes, t \in InputTitles, u \in InputUrls, f \in Faults : confirmNewBookmark(p, t, u, f)
  \/ \E f \in Faults : performUndo(f)
  \/ \E p \in VisiblePanes : \E id \in ContentItems(p) :
       \E t \in InputTitles \cup {RowOf(p, id).title}, f \in Faults : confirmRename(id, t, f)
  \/ \E p \in VisiblePanes : \E id \in ContentItems(p), f \in Faults : deleteItem(id, f)
  \/ \E p \in VisiblePanes : \E id \in ContentItems(p) : copyItem(id, p)
  \/ \E p \in VisiblePanes, f \in Faults : pasteItem(p, f)

Resume ==
  \/ NewFolderResume
  \/ NewBookmarkResume
  \/ \E f \in Faults : UndoResume(f)
  \/ \E f \in Faults : RenameResume(f)
  \/ \E c \in BOOLEAN, f \in Faults : DeleteResume(c, f)
  \/ \E f \in Faults : PasteResume(f)

Next ==
  \/ (AllIdle /\ clock < MaxOps /\ Start)
  \/ Resume

Spec == Init /\ [][Next]_vars

\* ------------------------------------------------------------------
\* Specification of the drag session: drags, drops and undo
\* ------------------------------------------------------------------
\* user actions in one behaviour of SpecDrag: MaxDrags drags, then undos
MaxDrags == 1
MaxDragOps == 2

DragStart ==
  \/ (clock < MaxDrags /\ \E item \in Rows : dragstart(item))
  \/ \E f \in Faults : performUndo(f)

\* where the pointer goes when it leaves a candidate during a drag session: out
\* of the window, or, leaving the recorded hover target, onto the target itself
LeftFor(left) == {NoValue} \cup (IF left = lastDropTarget THEN {left} ELSE {})

DragStep ==
  \/ (draggedItem # NoValue /\ \E e \in DragoverEvents(draggedItem.id) : dragover(e))
  \/ \E left \in Rows \cup { PaneEl(p) : p \in VisiblePanes } :
       \E related \in LeftFor(left) : dragleave(left, related)
  \/ dragend
  \/ (draggedItem # NoValue /\ \E e \in DropEvents(draggedItem.id), f \in Faults : drop(e, f))
  \/ \E f \in Faults : DropResume(f)
  \/ \E f \in Faults : UndoResume(f)

NextDrag ==
  \/ (AllIdle /\ clock < MaxDragOps /\ DragStart)
  \/ DragStep

SpecDrag == Init /\ [][NextDrag]_vars

\* ------------------------------------------------------------------
\* Specification of the scenario handlers: new folder, delete, undo
\* ------------------------------------------------------------------
\* user actions in one behaviour of SpecScenario
MaxScenarioOps == 4

ScenarioStart ==
  \/ \E p \in VisiblePanes, t \in InputTitles, f \in Faults : confirmNewFolder(p, t, f)
  \/ \E p \in VisiblePanes : \E id \in ContentItems(p), f \in Faults : deleteItem(id, f)
  \/ \E f \in Faults : performUndo(f)

ScenarioResume ==
  \/ NewFolderResume
  \/ \E c \in BOOLEAN, f \in Faults : DeleteResume(c, f)
  \/ \E f \in Faults : UndoResume(f)

NextScenario ==
  \/ (AllIdle /\ clock < MaxScenarioOps /\ ScenarioStart)
  \/ ScenarioResume

SpecScenario == Init /\ [][NextScenario]_vars

\* ------------------------------------------------------------------
\* Specification of a long log: renames of one bookmark, then undos
\* ------------------------------------------------------------------
\* renames before the first undo, and undos after them
StackPushes == 60
StackUndos == 52
\* the bookmark that is renamed: z, the second row of pane 1
StackItem == InitialStore.nodes[BarId].children[2]

StackStart ==
  \/ /\ clock < StackPushes
     /\ \E t \in { u \in InputTitles : trim(u) # store.nodes[StackItem].title }, f \in Faults :
          confirmRename(StackItem, t, f)
  \/ /\ clock >= StackPushes
     /\ clock < StackPushes + StackUndos
     /\ \E f \in Faults : performUndo(f)

StackResume ==
  \/ \E f \in Faults : RenameResume(f)
  \/ \E f \in Faults : UndoResume(f)

NextStack ==
  \/ (AllIdle /\ StackStart)
  \/ StackResume

SpecStack == Init /\ [][NextStack]_vars

\* ------------------------------------------------------------------
\* Specification of the mutating actions: the dialogs, the context menu
\* and drag and drop together
\* ------------------------------------------------------------------
\* user actions in one behaviour of SpecMutations; a drag session, if there
\* is one, comes first
MaxMutations == 2

\* a dialog or a menu is used between drag sessions, never during one
NoDragSession == ~dragging

NextMutations ==
  \/ (AllIdle /\ clock < MaxMutations /\ NoDragSession /\ Start)
  \/ (AllIdle /\ clock = 0 /\ \E item \in Rows : dragstart(item))
  \/ Resume
  \/ DragStep

SpecMutations == Init /\ [][NextMutations]_vars

\* ------------------------------------------------------------------
\* Specification of the panes: navigation, selection, refresh and view mode
\* interleaved with handlers that change the tree
\* ------------------------------------------------------------------
MaxNavOps == 3

NavStart ==
  \/ \E p \in VisiblePanes : \E id \in NavTargets(p) : open(p, id)
  \/ \E p \in VisiblePanes : back(p)
  \/ \E p \in VisiblePanes : forward(p)
  \/ \E p \in VisiblePanes, f \in Faults : up(p, f)
  \/ \E p \in VisiblePanes : refresh(p)
  \/ \E p \in VisiblePanes : \E items \in Selections(p) : select(p, items)
  \/ \E mode \in ViewModes : setViewMode(mode)

NextNav ==
  \/ (AllIdle /\ clock < MaxNavOps /\ NavStart)
  \/ (AllIdle /\ clock < MaxNavOps /\ ScenarioStart)
  \/ UpResume
  \/ ScenarioResume

SpecNav == Init /\ [][NextNav]_vars

\* ------------------------------------------------------------------
\* Specification of the undo log under navigation and drag sessions: a new
\* folder first, then navigation, selection, refresh, view mode, undo, and a
\* drag session as the second user action
\* ------------------------------------------------------------------
NextFrame ==
  \/ (AllIdle /\ clock = 0 /\
        \E p \in VisiblePanes, f \in Faults : confirmNewFolder(p, TestTitle, f))
  \/ (AllIdle /\ clock > 0 /\ clock < MaxNavOps /\ NavStart)
  \/ (AllIdle /\ clock > 0 /\ clock < MaxNavOps /\ \E f \in Faults : performUndo(f))
  \/ (AllIdle /\ clock = 1 /\ \E item \in Rows : dragstart(item))
  \/ NewFolderResume
  \/ UpResume
  \/ DragStep

SpecFrame == Init /\ [][NextFrame]_vars

\* ------------------------------------------------------------------
\* Specification of the mutating actions on navigated panes
\* ------------------------------------------------------------------
\* the folders pane 2 shows at the start: its home folder, the folder pane 1
\* shows (a click on Bookmarks Bar in the tree), or folder A (a click on A)
StartFolders == {OtherId, BarId, InitialStore.nodes[BarId].children[1]}

InitPanes ==
  /\ store = InitialStore
  /\ faultsLeft = MaxFaults
  /\ clock = 0
  /\ undoStack = <<>>
  /\ undoEnabled = InitialUndoEnabled
  /\ toast = NoToast
  /\ clipboard = NoValue
  /\ \E f \in StartFolders :
       panes = [InitialPanes EXCEPT
                  ![2] = IF f = @.currentFolderId THEN @ ELSE navigatePane(@, f, TRUE)]
  /\ draggedItem = NoValue
  /\ lastDropTarget = NoValue
  /\ lastDropPosition = "none"
  /\ dropIndicator = NoValue
  /\ dragging = FALSE
  /\ viewMode = InitialViewMode
  /\ shown = [InitialShown EXCEPT
                !.pane[2] = RenderContent(InitialStore, panes[2].currentFolderId),
                !.buttons[2] = updatePaneNavButtons(panes[2])]
  /\ tasks = [h \in Handlers |-> IdleTask]
  /\ lastPush = NoPush
  /\ lastEvent = NoEvent
  /\ scen = [step |-> 0]
  /\ calc = NoValue

SpecPanes == InitPanes /\ [][NextMutations]_vars

\* ------------------------------------------------------------------
\* Specification of a round trip: actions that the store accepts, one at a
\* time on an empty undo stack, then nothing but undos
\* ------------------------------------------------------------------
\* actions before the first undo
MaxTrip == 2

\* an undo has been invoked: no action follows
UndoPhase == tasks["undo"].pc # "idle" \/ lastEvent.op = "undo"

\* a drop directly on a row of a pane, with no hover target recorded
TripDrops(d) ==
  { e \in DropEvents(d) : e.hit # NoValue /\ e.hit.kind = "content" /\ e.hit.id # d }

TripStart ==
  \/ \E p \in VisiblePanes : confirmNewFolder(p, TestTitle, FALSE)
  \/ \E p \in VisiblePanes, u \in InputUrls : confirmNewBookmark(p, TestTitle, u, FALSE)
  \/ \E p \in VisiblePanes : \E id \in ContentItems(p) : confirmRename(id, TestTitle, FALSE)
  \/ \E p \in VisiblePanes : \E id \in ContentItems(p) : copyItem(id, p)
  \/ \E p \in VisiblePanes : pasteItem(p, FALSE)
  \/ \E p \in VisiblePanes : \E id \in ContentItems(p) : dragstart(ContentEl(p, id))

NextTrip ==
  \/ (AllIdle /\ ~UndoPhase /\ clock < MaxTrip /\ TripStart)
  \/ (AllIdle /\ clock < MaxTrip + MaxTrip /\ performUndo(FALSE))
  \/ NewFolderResume
  \/ NewBookmarkResume
  \/ RenameResume(FALSE)
  \/ PasteResume(FALSE)
  \/ (draggedItem # NoValue /\ \E e \in TripDrops(draggedItem.id) : drop(e, FALSE))
  \/ DropResume(FALSE)
  \/ dragend
  \/ UndoResume(FALSE)

SpecTrip == Init /\ [][NextTrip]_vars

\* ------------------------------------------------------------------
\* Specification of undo invoked at any moment: the undo button and Ctrl+Z
\* stay usable while another handler is suspended on a store call
\* ------------------------------------------------------------------
\* user actions in one behaviour of SpecOverlap
MaxOverlap == 3

\* the user works in the first pane
OverlapStart ==
  \/ confirmNewFolder(1, TestTitle, FALSE)
  \/ \E id \in ContentItems(1) : confirmRename(id, TestTitle, FALSE)
  \/ \E id \in ContentItems(1) : deleteItem(id, FALSE)
  \/ \E id \in ContentItems(1) : dragstart(ContentEl(1, id))

\* no store call is rejected and every delete is confirmed
NextOverlap ==
  \/ (AllIdle /\ clock < MaxOverlap /\ OverlapStart)
  \/ (clock < MaxOverlap /\ performUndo(FALSE))
  \/ NewFolderResume
  \/ RenameResume(FALSE)
  \/ DeleteResume(TRUE, FALSE)
  \/ (draggedItem # NoValue /\ \E e \in TripDrops(draggedItem.id) : drop(e, FALSE))
  \/ DropResume(FALSE)
  \/ dragend
  \/ UndoResume(FALSE)

SpecOverlap == Init /\ [][NextOverlap]_vars

\* ------------------------------------------------------------------
\* Specification of drag sessions that follow one another closely: a drag
\* can start while the drop handler of the session before is suspended
\* ------------------------------------------------------------------
\* drag sessions in one behaviour of SpecSessions
MaxSessions == 2

\* the pointer is over a row of a pane other than the dragged one
SessionHovers(d) ==
  { e \in DragoverEvents(d) : e.hit # NoValue /\ e.hit.kind = "content" /\ e.hit.id # d }

SessionDrops(d) ==
  IF lastDropTarget # NoValue /\ lastDropTarget.id # NoId THEN DropEvents(d) ELSE TripDrops(d)

NextSessions ==
  \/ (clock < MaxSessions /\
        \E p \in VisiblePanes : \E id \in ContentItems(p) : dragstart(ContentEl(p, id)))
  \/ (draggedItem # NoValue /\ \E e \in SessionHovers(draggedItem.id) : dragover(e))
  \/ (draggedItem # NoValue /\ \E e \in SessionDrops(draggedItem.id) : drop(e, FALSE))
  \/ DropResume(FALSE)
  \/ dragend

SpecSessions == Init /\ [][NextSessions]_vars

\* ------------------------------------------------------------------
\* Specification of drops on the dragged item's own row: every drop is
\* released over a row of the dragged item while no hover target is recorded
\* ------------------------------------------------------------------
\* drag sessions in one behaviour of SpecOwnRow
MaxOwnDrags == 2

OwnRowDrops(d) ==
  IF lastDropTarget = NoValue
  THEN { e \in PointerEvents(d) : e.hit # NoValue /\ e.hit.id = d }
  ELSE {}

NextOwnRow ==
  \/ (AllIdle /\ clock < MaxOwnDrags /\ \E item \in Rows : dragstart(item))
  \/ (draggedItem # NoValue /\
        \E e \in OwnRowDrops(draggedItem.id), f \in Faults : drop(e, f))
  \/ \E f \in Faults : DropResume(f)
  \/ dragend

SpecOwnRow == Init /\ [][NextOwnRow]_vars

\* ------------------------------------------------------------------
\* Specification of the popup's drag sessions
\* ------------------------------------------------------------------
\* drags in one behaviour of SpecPopup
MaxPopupDrags == 2

NextPopup ==
  \/ (clock < MaxPopupDrags /\ \E item \in PopupRows : popupDragstart(item))
  \/ popupDragend
  \/ \E target \in PopupDropTargets, f \in Faults : popupDrop(target, f)
  \/ \E f \in Faults : PopupDropResume(f)

SpecPopup == Init /\ [][NextPopup]_vars

\* ------------------------------------------------------------------
\* Specification of the drag helpers: each behaviour applies one helper
\* to one input
\* ------------------------------------------------------------------
\* largest index of a sibling list in the inputs of the index arithmetic
MaxIndex == 6

\* getDropPosition: a rendered row, its rectangle and a pointer height from
\* the top edge to the bottom edge of the row
PositionRects == { RowRect, [top |-> 0, height |-> 30] }

PositionInputs ==
  UNION { { [kind |-> "position", target |-> t, e |-> [clientY |-> y, rect |-> r],
             done |-> FALSE, result |-> "none"] :
              t \in Rows, y \in r.top .. (r.top + r.height) } : r \in PositionRects }

\* the index arithmetic of a reorder drop: the target node as read from the
\* store, the position, and the dragged item's original parent and index
ReorderInputs ==
  { [kind |-> "reorder", targetNode |-> [parentId |-> tp, index |-> ti],
     dropPosition |-> pos, originalParentId |-> op, originalIndex |-> oi,
     done |-> FALSE, result |-> NoIndex] :
      tp \in {BarId, OtherId}, ti \in 0..MaxIndex, pos \in {"before", "after"},
      op \in {BarId, OtherId}, oi \in 0..MaxIndex }

\* findNearbyDropTarget: the offsets probed around the pointer, in order
searchOffsets ==
  << <<0, 0>>,
     <<0, -12>>, <<0, 12>>, <<-12, 0>>, <<12, 0>>,
     <<-12, -12>>, <<12, -12>>, <<-12, 12>>, <<12, 12>>,
     <<0, -24>>, <<0, 24>>, <<-24, 0>>, <<24, 0>>,
     <<-24, -24>>, <<24, -24>>, <<-24, 24>>, <<24, 24>> >>

\* the list of the popup's variant of the function
popupSearchOffsets ==
  << <<0, 0>>,
     <<0, -12>>, <<0, 12>>, <<-12, 0>>, <<12, 0>>,
     <<-12, -12>>, <<12, -12>>, <<-12, 12>>, <<12, 12>>,
     <<0, -24>>, <<0, 24>>, <<-24, 0>>, <<24, 0>> >>

OffsetsOf(variant) == IF variant = "popup" THEN popupSearchOffsets ELSE searchOffsets

\* a page: the viewport and the boxes of the rows rendered in it; every other
\* point of the viewport shows an element that is not inside a row
Viewport == [width |-> 96, height |-> 96]

Box(el, left, top, width, height) ==
  [el |-> el, left |-> left, top |-> top, width |-> width, height |-> height]

FirstRow == InitialStore.nodes[BarId].children[1]
SecondRow == InitialStore.nodes[BarId].children[2]

PageLayouts ==
  { { Box(ContentEl(1, FirstRow), 24, 24, 48, 12),
      Box(ContentEl(1, SecondRow), 24, 36, 48, 12) },
    { Box(TreeEl(FirstRow), 0, 60, 12, 12),
      Box(ContentEl(1, SecondRow), 60, 60, 6, 6) } }

\* document.elementFromPoint: null outside the viewport
elementFromPoint(layout, x, y) ==
  IF x < 0 \/ y < 0 \/ x >= Viewport.width \/ y >= Viewport.height
  THEN NoValue
  ELSE LET hit == { b \in layout : /\ b.left <= x /\ x < b.left + b.width
                                    /\ b.top <= y /\ y < b.top + b.height }
       IN IF hit = {} THEN Background ELSE (CHOOSE b \in hit : TRUE).el

\* el.closest('.content-item, .tree-item')
closest(el) == IF el.kind \in {"content", "tree"} THEN el ELSE NoValue

\* the loop over the offsets from the i-th on
RECURSIVE ProbeFrom(_, _, _, _, _, _)
ProbeFrom(offsets, i, layout, x, y, excludeId) ==
  IF i > Len(offsets)
  THEN NoValue
  ELSE LET el == elementFromPoint(layout, x + offsets[i][1], y + offsets[i][2])
           target == IF el = NoValue THEN NoValue ELSE closest(el)
       IN IF target # NoValue /\ target.id # excludeId
          THEN target
          ELSE ProbeFrom(offsets, i + 1, layout, x, y, excludeId)

findNearbyDropTarget_CenterOnly(variant, layout, x, y, excludeId) ==
  ProbeFrom(SubSeq(OffsetsOf(variant), 1, 1), 1, layout, x, y, excludeId)

findNearbyDropTarget(variant, layout, x, y, excludeId) ==
  ProbeFrom(OffsetsOf(variant), 1, layout, x, y, excludeId)

PointerGrid == { 6 * k : k \in 0..15 }

NearbyInputs ==
  { [kind |-> "nearby", variant |-> v, layout |-> l, x |-> x, y |-> y, excludeId |-> d,
     done |-> FALSE, result |-> NoValue] :
      v \in {"page", "popup"}, l \in PageLayouts, x \in PointerGrid, y \in PointerGrid,
      d \in {FirstRow, SecondRow, NoId} }

\* the target resolution of a drop: the dragged row, the hover target and
\* position a dragover recorded (none, a row with the position of a pointer
\* height, or a pane's content area) and the drop event
HoverInputs(d) ==
  {[el |-> NoValue, position |-> "none"]}
    \cup { [el |-> r, position |-> getDropPosition([clientY |-> y, rect |-> RowRect], r)] :
             r \in { r \in Rows : r.id # d }, y \in PointerYs }
    \cup { [el |-> PaneEl(p), position |-> "into"] : p \in Panes }

TargetInputs ==
  UNION { { [kind |-> "target", draggedItem |-> [id |-> item.id, pane |-> item.pane],
             hover |-> h, e |-> e, done |-> FALSE,
             result |-> [strategy |-> 0, targetId |-> NoId, isTargetFolder |-> FALSE,
                         position |-> "none"]] :
              h \in HoverInputs(item.id), e \in PointerEvents(item.id) } : item \in Rows }

\* the indicator that goes with a recorded hover state
IndicatorOf(h) ==
  IF h.el = NoValue
  THEN NoValue
  ELSE IF h.el.kind = "pane"
  THEN [el |-> h.el, class |-> "drag-over"]
  ELSE updateDropIndicator(h.el, h.position)

\* a dragover event during a drag of a row, on each hover state the drag can
\* have recorded; and a dragover event while nothing is dragged
DragoverInputs ==
  UNION { { [kind |-> "hover", draggedItem |-> [id |-> item.id, pane |-> item.pane],
             hover |-> h, e |-> e, done |-> FALSE, result |-> NoValue] :
              h \in HoverInputs(item.id), e \in DragoverEvents(item.id) } : item \in Rows }
    \cup { [kind |-> "hover", draggedItem |-> NoValue,
            hover |-> [el |-> NoValue, position |-> "none"], e |-> e, done |-> FALSE,
            result |-> NoValue] : e \in PointerEvents(NoId) }

\* a dragleave event during a drag of a row of pane 1, on each hover state the
\* drag can have recorded; the popup's listeners record no content area
LeaveInputs ==
  UNION { UNION { { [kind |-> "leave", variant |-> v,
                     draggedItem |-> [id |-> item.id, pane |-> item.pane],
                     hover |-> h, left |-> l, related |-> r, done |-> FALSE,
                     result |-> NoValue] :
                      v \in { w \in {"page", "popup"} :
                                w = "popup" /\ h.el # NoValue => h.el.kind # "pane" },
                      l \in Elements, r \in Elements \cup {NoValue} } :
                  h \in HoverInputs(item.id) } :
          item \in { r \in Rows : r.kind = "content" /\ r.pane = 1 } }

CalcInputs ==
  PositionInputs \cup ReorderInputs \cup NearbyInputs \cup TargetInputs \cup DragoverInputs
    \cup LeaveInputs

InitFunctions ==
  /\ store = InitialStore
  /\ faultsLeft = MaxFaults
  /\ clock = 0
  /\ undoStack = <<>>
  /\ undoEnabled = InitialUndoEnabled
  /\ toast = NoToast
  /\ clipboard = NoValue
  /\ panes = InitialPanes
  /\ viewMode = InitialViewMode
  /\ shown = InitialShown
  /\ tasks = [h \in Handlers |-> IdleTask]
  /\ lastPush = NoPush
  /\ lastEvent = NoEvent
  /\ scen = [step |-> 0]
  /\ calc \in CalcInputs
  /\ draggedItem = IF calc.kind \in {"target", "hover", "leave"} THEN calc.draggedItem ELSE NoValue
  /\ lastDropTarget = IF calc.kind \in {"target", "hover", "leave"} THEN calc.hover.el ELSE NoValue
  /\ lastDropPosition = IF calc.kind \in {"target", "hover", "leave"}
                        THEN calc.hover.position ELSE "none"
  /\ dropIndicator = IF calc.kind \in {"target", "hover", "leave"}
                     THEN IndicatorOf(calc.hover) ELSE NoValue
  /\ dragging = (draggedItem # NoValue)

\* the helper of kind k returns result
Apply(k, result) ==
  /\ calc.kind = k
  /\ ~calc.done
  /\ calc' = [calc EXCEPT !.done = TRUE, !.result = result]
  /\ UNCHANGED <<storeVars, clock, undoVars, toast, clipboard, panes, viewVars, dragVars, tasks,
                 lastPush, lastEvent, scen>>

ApplyGetDropPosition == Apply("position", getDropPosition(calc.e, calc.target))

ApplyReorderIndex ==
  Apply("reorder", ReorderIndex(calc.targetNode, calc.dropPosition,
                                calc.originalParentId, calc.originalIndex))

ApplyFindNearbyDropTarget ==
  Apply("nearby", findNearbyDropTarget(calc.variant, calc.layout, calc.x, calc.y,
                                       calc.excludeId))

ApplyResolveDrop == Apply("target", ResolveDrop(calc.e, draggedItem.id))

ApplyDragover == Apply("hover", HoverAfter(calc.e, draggedItem, Recorded))

ApplyDragleave ==
  Apply("leave", LeaveAfter(calc.variant, calc.left, calc.related, Recorded))

NextFunctions ==
  \/ ApplyDragleave
  \/ ApplyGetDropPosition
  \/ ApplyReorderIndex
  \/ ApplyFindNearbyDropTarget
  \/ ApplyResolveDrop
  \/ ApplyDragover

SpecFunctions == InitFunctions /\ [][NextFunctions]_vars

\* ------------------------------------------------------------------
\* Properties
\* ------------------------------------------------------------------
\* handler op has just returned
Just(op) == lastEvent.op = op /\ lastEvent.at = clock

UndoOf(type) ==
  /\ Just("undo")
  /\ ~lastEvent.empty
  /\ lastEvent.type = type

\* the undo follows the action it undoes with no mutation in between, and the
\* store rejected none of its calls
FreshUndoOf(type) ==
  /\ UndoOf(type)
  /\ lastEvent.fresh
  /\ ~lastEvent.faulted

\* C1: after create folder "Test" on an empty stack, delete "Test", undo, undo
\* (no store call rejected), the tree equals the original tree by title, url
\* and position, and the undo stack is empty.
C1_EndToEnd ==
  (scen.step = 4 /\ Just("undo")) => TreeShape(store) = scen.base /\ undoStack = <<>>

\* C2: an undo that directly follows a delete succeeds and leaves the whole
\* tree equal, by title, url and position, to the tree before the delete; the
\* recreated subtree sits at the original parent and index.
C2_DeleteThenUndo ==
  FreshUndoOf("delete") =>
    /\ lastEvent.ok
    /\ TreeShape(store) = TreeShape(lastEvent.pre)
    /\ LET e == lastEvent.entry
           old == e.data.id
       IN /\ e.parentId = lastEvent.pre.nodes[old].parentId
          /\ e.index = IndexOf(lastEvent.pre, old)
          /\ e.index < Len(ChildrenOf(store, e.parentId))
          /\ Shape(store, ChildrenOf(store, e.parentId)[e.index + 1]) = Shape(lastEvent.pre, old)

\* a folder with descendants two levels down was deleted and restored under new ids
C2_Witness ==
  /\ FreshUndoOf("delete")
  /\ lastEvent.ok
  /\ \E i \in 1..Len(lastEvent.entry.data.children) :
       Len(lastEvent.entry.data.children[i].children) > 0
  /\ ~Exists(store, lastEvent.entry.data.id)
  /\ lastEvent.before.nodes # store.nodes

\* C3: the Move entry pushed by a successful drop holds the dragged item's
\* parent and index as they were in the store before the move, and an undo that
\* directly follows the drop puts every sibling list back in its pre-drop order.
C3_MoveThenUndo ==
  /\ (Just("drop") /\ lastEvent.ok) =>
       LET top == undoStack[Len(undoStack)]
           id == lastEvent.id
       IN /\ top.type = "move"
          /\ top.itemId = id
          /\ top.originalParentId = lastEvent.before.nodes[id].parentId
          /\ top.originalIndex = IndexOf(lastEvent.before, id)
  /\ FreshUndoOf("move") =>
       /\ lastEvent.ok
       /\ store.nodes = lastEvent.pre.nodes

\* a drop that took the item to another parent, not to the end of it, was undone
C3_Witness ==
  /\ FreshUndoOf("move")
  /\ lastEvent.ok
  /\ LET id == lastEvent.entry.itemId
         moved == lastEvent.before
     IN /\ moved.nodes[id].parentId # lastEvent.entry.originalParentId
        /\ IndexOf(moved, id) + 1 < Len(ChildrenOf(moved, moved.nodes[id].parentId))
  /\ store.nodes = InitialStore.nodes

\* C4: an undo that directly follows a create-folder, create-bookmark or paste
\* deletes exactly the created node: the tree is the tree before the action
\* and the entry is gone from the stack.
C4_CreateThenUndo ==
  (FreshUndoOf("create") \/ FreshUndoOf("paste")) =>
    /\ lastEvent.ok
    /\ store.nodes = lastEvent.pre.nodes
    /\ ~Exists(store, lastEvent.entry.createdId)
    /\ Exists(lastEvent.before, lastEvent.entry.createdId)
    /\ undoStack = SubSeq(lastEvent.stackBefore, 1, Len(lastEvent.stackBefore) - 1)

\* a pasted copy was removed again
C4_Witness ==
  /\ FreshUndoOf("paste")
  /\ lastEvent.ok
  /\ Exists(lastEvent.before, lastEvent.entry.createdId)
  /\ ~Exists(store, lastEvent.entry.createdId)

\* C5: an undo that directly follows a rename sets the item's title back to
\* the title it had before the rename and changes nothing else in the tree.
C5_RenameThenUndo ==
  FreshUndoOf("rename") =>
    LET id == lastEvent.entry.itemId
    IN /\ lastEvent.ok
       /\ lastEvent.entry.originalTitle = lastEvent.pre.nodes[id].title
       /\ store.nodes[id].title = lastEvent.pre.nodes[id].title
       /\ store.nodes = lastEvent.pre.nodes
       /\ store.nodes = [lastEvent.before.nodes EXCEPT ![id].title = lastEvent.pre.nodes[id].title]

\* a title that the rename had changed is back
C5_Witness ==
  /\ FreshUndoOf("rename")
  /\ lastEvent.ok
  /\ lastEvent.before.nodes[lastEvent.entry.itemId].title
       # store.nodes[lastEvent.entry.itemId].title

\* C6: the stack never holds more than 50 entries; a push onto a full stack
\* evicts exactly the oldest entry and keeps the rest in order; 60 pushes onto
\* the empty stack leave the 50 most recent, the most recent on top.
C6_StackBound ==
  /\ Len(undoStack) <= MAX_UNDO_STACK_SIZE
  /\ (Just("rename") /\ lastEvent.ok) =>
       LET old == lastEvent.stackBefore
           kept == IF Len(old) = MAX_UNDO_STACK_SIZE THEN Tail(old) ELSE old
       IN /\ Len(undoStack) = Len(kept) + 1
          /\ SubSeq(undoStack, 1, Len(kept)) = kept
          /\ undoStack[Len(undoStack)].timestamp = clock
          /\ undoStack[Len(undoStack)].itemId = lastEvent.id
  /\ (clock = StackPushes /\ AllIdle /\ faultsLeft = MaxFaults) =>
       /\ Len(undoStack) = MAX_UNDO_STACK_SIZE
       /\ \A i \in 1..Len(undoStack) :
            undoStack[i].timestamp = StackPushes - MAX_UNDO_STACK_SIZE + i

\* the sixtieth push has completed on a full stack
C6_Witness ==
  /\ clock = StackPushes
  /\ AllIdle
  /\ faultsLeft = MaxFaults
  /\ Just("rename")
  /\ lastEvent.ok
  /\ Len(lastEvent.stackBefore) = MAX_UNDO_STACK_SIZE
  /\ undoStack[1].timestamp = StackPushes - MAX_UNDO_STACK_SIZE + 1

\* the first store call an undo must issue for an entry
InverseIssued(e, calls) ==
  LET c == calls[1].call
  IN CASE e.type = "delete" ->
            /\ c.op = "create" /\ c.parentId = e.parentId /\ c.index = e.index
            /\ c.title = e.data.title /\ c.url = e.data.url
       [] e.type = "move" ->
            /\ c.op = "move" /\ c.id = e.itemId
            /\ c.parentId = e.originalParentId /\ c.index = e.originalIndex
       [] e.type = "rename" ->
            c.op = "update" /\ c.id = e.itemId /\ c.title = e.originalTitle
       [] e.type \in {"create", "paste"} ->
            /\ c.op = "get" /\ c.id = e.createdId
            /\ calls[1].ok =>
                 /\ Len(calls) = 2
                 /\ calls[2].call.op \in {"remove", "removeTree"}
                 /\ calls[2].call.id = e.createdId

\* C7: an undo on a non-empty stack removes exactly one entry, the most
\* recently pushed one still on the stack, leaves the entries below it as they
\* were, and issues the inverse store operation of that entry's type.
C7_Lifo ==
  /\ tasks["undo"].pc # "idle" =>
       LET old == tasks["undo"].g_stack
       IN /\ undoStack = SubSeq(old, 1, Len(old) - 1)
          /\ tasks["undo"].action = old[Len(old)]
  /\ (Just("undo") /\ ~lastEvent.empty) =>
       LET old == lastEvent.stackBefore
       IN /\ Len(old) > 0
          /\ undoStack = SubSeq(old, 1, Len(old) - 1)
          /\ lastEvent.entry = old[Len(old)]
          /\ \A i \in 1..Len(undoStack) : undoStack[i].timestamp < lastEvent.entry.timestamp
          /\ InverseIssued(lastEvent.entry, lastEvent.calls)

\* an undo took the top entry off a stack of two or more
C7_Witness ==
  /\ Just("undo")
  /\ ~lastEvent.empty
  /\ lastEvent.ok
  /\ Len(lastEvent.stackBefore) >= 2
  /\ Len(undoStack) = Len(lastEvent.stackBefore) - 1

\* C8: undo takes the "nothing to undo" path exactly when the stack is empty;
\* on that path it shows the notice, starts no store call and leaves the stack
\* and the tree unchanged.
C8_EmptyUndo ==
  Just("undo") =>
    /\ lastEvent.empty <=> lastEvent.stackBefore = <<>>
    /\ lastEvent.empty =>
         /\ toast = Notice("Nothing to undo", "info")
         /\ lastEvent.calls = <<>>
         /\ tasks["undo"].pc = "idle"
         /\ store = lastEvent.before
         /\ undoStack = lastEvent.stackBefore
         /\ ~undoEnabled

\* one push, one undo that removed the created node, then the undo on the empty stack
C8_Witness ==
  /\ Just("undo")
  /\ lastEvent.empty
  /\ clock = 3
  /\ store.nextId = InitialStore.nextId + 1
  /\ store.nodes = InitialStore.nodes

\* C9: when the inverse store call of an undo fails, the popped entry is
\* discarded (not pushed again), the failed call is the last one issued (no
\* retry), the entries below keep content and order, and a failure notice is shown.
C9_FailedUndo ==
  (Just("undo") /\ ~lastEvent.empty /\ ~lastEvent.ok) =>
    LET old == lastEvent.stackBefore
        calls == lastEvent.calls
    IN /\ undoStack = SubSeq(old, 1, Len(old) - 1)
       /\ ~calls[Len(calls)].ok
       /\ \A i \in 1..(Len(calls) - 1) : calls[i].ok
       /\ toast = Notice("Undo failed", "error")
       /\ tasks["undo"].pc = "idle"

\* an undo failed because its target id is no longer in the store
C9_Witness ==
  /\ Just("undo")
  /\ ~lastEvent.empty
  /\ ~lastEvent.ok
  /\ ~lastEvent.faulted
  /\ lastEvent.entry.type = "create"
  /\ ~Exists(lastEvent.before, lastEvent.entry.createdId)

\* C10: when an undo fails, the store is exactly as it was when undo was invoked.
C10_NoPartialMutation ==
  (Just("undo") /\ ~lastEvent.empty /\ ~lastEvent.ok) =>
    store = lastEvent.before

\* a completed application of the helper of kind k
Applied(k) == calc # NoValue /\ calc.kind = k /\ calc.done

\* C14: for a pane row marked as a folder, a pointer above the first quarter
\* of the row gives before, one below the third quarter gives after, and every
\* other height, the two quarter lines included, gives into; for a bookmark
\* row a pointer above the middle gives before and every other height gives
\* after. With top 100 and height 40: folder 105 before, 120 into, 138 after;
\* bookmark 115 before, 130 after.
C14_DropPosition ==
  (Applied("position") /\ calc.target.kind = "content") =>
    LET relativeY == calc.e.clientY - calc.e.rect.top
        height == calc.e.rect.height
        folder == IsFolderNode(store, calc.target.id)
        at(y) == calc.e.rect = [top |-> 100, height |-> 40] /\ calc.e.clientY = y
    IN /\ (folder /\ 4 * relativeY < height) => calc.result = "before"
       /\ (folder /\ 4 * relativeY > 3 * height) => calc.result = "after"
       /\ (folder /\ 4 * relativeY >= height /\ 4 * relativeY <= 3 * height)
            => calc.result = "into"
       /\ (~folder /\ 2 * relativeY < height) => calc.result = "before"
       /\ (~folder /\ 2 * relativeY >= height) => calc.result = "after"
       /\ (folder /\ at(105)) => calc.result = "before"
       /\ (folder /\ (at(110) \/ at(120) \/ at(130))) => calc.result = "into"
       /\ (folder /\ at(138)) => calc.result = "after"
       /\ (~folder /\ at(115)) => calc.result = "before"
       /\ (~folder /\ at(130)) => calc.result = "after"

\* a folder row of a pane with the pointer exactly on its first quarter line
C14_Witness ==
  /\ Applied("position")
  /\ calc.target.kind = "content"
  /\ IsFolderNode(store, calc.target.id)
  /\ 4 * (calc.e.clientY - calc.e.rect.top) = calc.e.rect.height
  /\ calc.result = "into"

\* C15: every row that stands for a folder, a row of the sidebar folder tree
\* included, is classified with the folder thresholds: a pointer in the middle
\* half of the row gives into.
C15_FolderRowsInto ==
  (Applied("position") /\ IsFolderNode(store, calc.target.id)) =>
    LET relativeY == calc.e.clientY - calc.e.rect.top
        height == calc.e.rect.height
    IN (4 * relativeY >= height /\ 4 * relativeY <= 3 * height) => calc.result = "into"

\* C16: the index of a reorder drop is the target's index, plus one if the
\* position is after, minus one if the dragged item comes from the target's
\* parent at an original index below that value. Within one parent, index 2
\* dropped after index 5 gives 5, and index 4 dropped before index 1 gives 1.
C16_ReorderIndex ==
  Applied("reorder") =>
    LET plus == IF calc.dropPosition = "after" THEN 1 ELSE 0
        same == calc.originalParentId = calc.targetNode.parentId
        minus == IF same /\ calc.originalIndex < calc.targetNode.index + plus THEN 1 ELSE 0
    IN /\ calc.result = calc.targetNode.index + plus - minus
       /\ (same /\ calc.originalIndex = 2 /\ calc.targetNode.index = 5
             /\ calc.dropPosition = "after") => calc.result = 5
       /\ (same /\ calc.originalIndex = 4 /\ calc.targetNode.index = 1
             /\ calc.dropPosition = "before") => calc.result = 1

\* within one parent, the item at index 2 was dropped after the target at index 5
C16_Witness ==
  /\ Applied("reorder")
  /\ calc.originalParentId = calc.targetNode.parentId
  /\ calc.originalIndex = 2
  /\ calc.targetNode.index = 5
  /\ calc.dropPosition = "after"
  /\ calc.result = 5

\* C12: a confirmed rename whose new title (the dialog's text, trimmed) is the
\* title the store holds for the item issues no store call after the read of
\* the item and pushes nothing: the stack, the undo buttons and the tree are
\* as they were.
C12_RenameNoop ==
  (Just("rename") /\ lastEvent.calls[1].ok) =>
    LET id == lastEvent.id
        same == lastEvent.newTitle = lastEvent.before.nodes[id].title
    IN /\ same <=> lastEvent.noop
       /\ same =>
            /\ Len(lastEvent.calls) = 1
            /\ lastEvent.calls[1].call.op = "get"
            /\ store = lastEvent.before
            /\ undoStack = lastEvent.stackBefore
            /\ undoEnabled = (lastEvent.stackBefore # <<>>)

\* after one push, a rename of an item to the title it already has returned
C12_Witness ==
  /\ Just("rename")
  /\ lastEvent.noop
  /\ lastEvent.newTitle = store.nodes[lastEvent.id].title
  /\ Len(undoStack) = 1

\* C13: the undo buttons are disabled in the initial state and, in every
\* state reached by pushes and undos, enabled exactly when the undo stack is
\* not empty.
C13_UndoEnabled ==
  /\ undoEnabled <=> undoStack # <<>>
  /\ (clock = 0 /\ AllIdle) => ~undoEnabled

\* a push enabled the buttons and the undo that emptied the stack disabled them
C13_Witness ==
  /\ Just("undo")
  /\ lastEvent.ok
  /\ Len(lastEvent.stackBefore) = 1
  /\ undoStack = <<>>
  /\ ~undoEnabled

Mutating == {"newFolder", "newBookmark", "paste", "rename", "delete", "drop"}

\* the store operations that change the tree
MutationOps == {"create", "update", "move", "remove", "removeTree"}

\* the type of the entry a mutating action pushes
EntryType(h) ==
  CASE h \in {"newFolder", "newBookmark"} -> "create"
    [] h = "paste" -> "paste"
    [] h = "rename" -> "rename"
    [] h = "delete" -> "delete"
    [] h = "drop" -> "move"

\* C11: a mutating action pushes its undo entry only after its store mutation
\* has succeeded: while it is suspended the stack is as it found it; when it
\* has returned, either all its calls succeeded, the last one being the
\* mutation, and exactly its entry was pushed, or a read or the mutation
\* failed (or no mutation was issued) and the stack is unchanged.
C11_PushAfterSuccess ==
  /\ \A h \in Mutating : tasks[h].pc # "idle" => undoStack = tasks[h].g_stack
  /\ \A h \in Mutating :
       Just(h) =>
         LET calls == lastEvent.calls
             mutated == /\ calls # <<>>
                        /\ \A i \in 1..Len(calls) : calls[i].ok
                        /\ calls[Len(calls)].call.op \in MutationOps
         IN /\ lastEvent.ok <=> mutated
            /\ IF mutated
               THEN /\ Len(undoStack) = Len(lastEvent.stackBefore) + 1
                    /\ SubSeq(undoStack, 1, Len(undoStack) - 1) = lastEvent.stackBefore
                    /\ undoStack[Len(undoStack)].type = EntryType(h)
               ELSE undoStack = lastEvent.stackBefore

\* after a drop had pushed its Move entry, a delete whose snapshot reads
\* succeeded and whose removal the store rejected left the stack unchanged
C11_Witness ==
  /\ Just("delete")
  /\ ~lastEvent.ok
  /\ Len(lastEvent.calls) >= 2
  /\ \A i \in 1..(Len(lastEvent.calls) - 1) : lastEvent.calls[i].ok
  /\ lastEvent.calls[Len(lastEvent.calls)].call.op \in MutationOps
  /\ ~lastEvent.calls[Len(lastEvent.calls)].ok
  /\ Len(undoStack) = 1
  /\ undoStack[1].type = "move"
  /\ undoStack = lastEvent.stackBefore

\* C19: a drop for which no strategy yields a target is a no-op: it issues no
\* store call, leaves the store and the undo stack as they were, clears the
\* drop indicator and resets draggedItem, lastDropTarget and lastDropPosition.
C19_NoTargetNoop ==
  Just("drop") /\ lastEvent.noTarget =>
    /\ lastEvent.calls = <<>>
    /\ tasks["drop"].pc = "idle"
    /\ store = lastEvent.before
    /\ undoStack = lastEvent.stackBefore
    /\ dropIndicator = NoValue
    /\ draggedItem = NoValue
    /\ lastDropTarget = NoValue
    /\ lastDropPosition = "none"

\* a drop outside every pane found no target while a pane was the recorded
\* hover target and carried the indicator
C19_Witness ==
  /\ Just("drop")
  /\ lastEvent.noTarget
  /\ lastEvent.hover # NoValue
  /\ lastEvent.indicator # NoValue
  /\ dropIndicator = NoValue
  /\ lastDropTarget = NoValue

\* C20: the drop handler works on what it captured before its first await:
\* the captured item id is never null; the move it issues, also after a
\* drag-end has reset the session while it was suspended, names the captured
\* item and the captured target (the target folder for a drop into it, and
\* after reading the target row for a reorder); the Move entry it pushes
\* carries the captured item's id.
C20_CaptureBeforeSuspend ==
  /\ tasks["drop"].pc # "idle" => tasks["drop"].draggedItemId # NoId
  /\ tasks["drop"].pc = "moved" =>
       LET t == tasks["drop"]
           n == Len(t.g_calls)
           c == t.g_calls[n].call
       IN /\ c.op = "move"
          /\ c.id = t.draggedItemId
          /\ IF t.strategy4 \/ (t.dropPosition = "into" /\ t.isTargetFolder)
             THEN c.parentId = t.targetId /\ c.index = NoIndex
             ELSE /\ n >= 3
                  /\ t.g_calls[n - 1] = [call |-> [op |-> "get", id |-> t.targetId], ok |-> TRUE]
                  /\ c.index # NoIndex
  /\ Just("drop") /\ lastEvent.ok =>
       LET top == undoStack[Len(undoStack)]
           c == lastEvent.calls[Len(lastEvent.calls)].call
       IN /\ lastEvent.id # NoId
          /\ top.type = "move"
          /\ top.itemId = lastEvent.id
          /\ c.op = "move"
          /\ c.id = lastEvent.id

\* a drop completed although drag-end had reset the session before the move
\* was issued, and the Move entry names the dragged item
C20_Witness ==
  /\ Just("drop")
  /\ lastEvent.ok
  /\ lastEvent.ended
  /\ undoStack[Len(undoStack)].itemId = lastEvent.id
  /\ store.nodes[lastEvent.id].parentId # lastEvent.before.nodes[lastEvent.id].parentId

\* the candidate row at the i-th probe of the applied search (NoValue: none)
CandidateAt(i) ==
  LET offs == OffsetsOf(calc.variant)
      el == elementFromPoint(calc.layout, calc.x + offs[i][1], calc.y + offs[i][2])
  IN IF el = NoValue THEN NoValue ELSE closest(el)

ValidProbe(i) == CandidateAt(i) # NoValue /\ CandidateAt(i).id # calc.excludeId

Cross(d) == { <<0, -d>>, <<0, d>>, <<-d, 0>>, <<d, 0>> }
Diagonals(d) == { <<-d, -d>>, <<d, -d>>, <<-d, d>>, <<d, d>> }
Range(seq, from, to) == { seq[i] : i \in from..to }

\* C18: findNearbyDropTarget probes the center, the 12px cross, the 12px
\* diagonals and the 24px cross (13 points), the full-page variant also the
\* 24px diagonals (17 points), in this order; it returns the candidate of the
\* first probe whose candidate is not the excluded item, none exactly when no
\* probe has such a candidate, and never the excluded item.
C18_FirstValidProbe ==
  Applied("nearby") =>
    LET offs == OffsetsOf(calc.variant)
        valid == { i \in 1..Len(offs) : ValidProbe(i) }
    IN /\ Len(offs) = IF calc.variant = "popup" THEN 13 ELSE 17
       /\ offs[1] = <<0, 0>>
       /\ Range(offs, 2, 5) = Cross(12)
       /\ Range(offs, 6, 9) = Diagonals(12)
       /\ Range(offs, 10, 13) = Cross(24)
       /\ calc.variant # "popup" => Range(offs, 14, 17) = Diagonals(24)
       /\ (calc.result = NoValue) <=> (valid = {})
       /\ calc.result # NoValue =>
            /\ calc.result.id # calc.excludeId
            /\ \E i \in valid : /\ \A j \in valid : i <= j
                                /\ calc.result = CandidateAt(i)

\* the search passed over a probe that hit the excluded row and returned the
\* row a later probe hit
C18_Witness ==
  /\ Applied("nearby")
  /\ calc.result # NoValue
  /\ \E j \in 1..Len(OffsetsOf(calc.variant)) :
       /\ CandidateAt(j) # NoValue
       /\ CandidateAt(j).id = calc.excludeId
       /\ \E i \in (j + 1)..Len(OffsetsOf(calc.variant)) : CandidateAt(i) = calc.result
       /\ \A k \in 1..j : CandidateAt(k) # calc.result

\* C17: the drop takes its target from the first strategy that yields one:
\* (1) the row and position a dragover recorded, also when the drop event is
\* over another candidate row; without a recorded row (2) the row under the
\* drop event unless it is the dragged row, then (3) the row of the probe
\* search, each with the position of the drop event's height, then (4) the
\* current folder of the pane under the pointer unless it is the dragged
\* item; otherwise there is no target.
C17_FallbackOrder ==
  Applied("target") =>
    LET e == calc.e
        d == calc.draggedItem.id
        recorded == calc.hover.el # NoValue /\ calc.hover.el.kind # "pane"
        direct == e.hit # NoValue /\ e.hit.id # d
        probed == e.near # NoValue
        folder == IF e.pane # 0 THEN panes[e.pane].currentFolderId ELSE NoId
        r == calc.result
    IN /\ recorded =>
            /\ r.strategy = 1
            /\ r.targetId = calc.hover.el.id
            /\ r.position = calc.hover.position
       /\ (~recorded /\ direct) =>
            /\ r.strategy = 2
            /\ r.targetId = e.hit.id
            /\ r.position = getDropPosition(e, e.hit)
       /\ (~recorded /\ ~direct /\ probed) =>
            /\ r.strategy = 3
            /\ r.targetId = e.near.id
            /\ r.position = getDropPosition(e, e.near)
       /\ (~recorded /\ ~direct /\ ~probed /\ folder # NoId /\ folder # d) =>
            /\ r.strategy = 4
            /\ r.targetId = folder
            /\ r.position = "into"
       /\ (~recorded /\ ~direct /\ ~probed /\ (folder = NoId \/ folder = d)) =>
            r.strategy = 0

\* the recorded row was used although the drop event was over another row
C17_Witness ==
  /\ Applied("target")
  /\ calc.hover.el # NoValue
  /\ calc.hover.el.kind = "content"
  /\ calc.e.hit # NoValue
  /\ calc.e.hit.id # calc.draggedItem.id
  /\ calc.e.hit.id # calc.hover.el.id
  /\ calc.result.strategy = 1
  /\ calc.result.targetId = calc.hover.el.id

\* C21: a drag-end returns the drag session to Idle: once the drag operation
\* has ended, draggedItem, lastDropTarget and lastDropPosition are cleared and
\* no row carries an indicator, after a drop or without one, and also while a
\* drop handler is still suspended.
C21_DragEndIdle ==
  ~dragging =>
    /\ draggedItem = NoValue
    /\ lastDropTarget = NoValue
    /\ lastDropPosition = "none"
    /\ dropIndicator = NoValue

\* the drag operation has ended while the drop handler, started on a
\* recorded reorder position, is still suspended
C21_Witness ==
  /\ ~dragging
  /\ tasks["drop"].pc # "idle"
  /\ tasks["drop"].dropPosition \in {"before", "after"}
  /\ draggedItem = NoValue
  /\ lastDropTarget = NoValue

C23_NavigateAddsHistory ==
  Just("navigate") =>
    LET p == lastEvent.pane
        was == lastEvent.panesBefore[p]
    IN /\ panes[p].currentFolderId = lastEvent.folderId
       /\ panes[p].selectedItems = {}
       /\ panes[p].history =
            Append(SubSeq(was.history, 1, was.historyIndex + 1), lastEvent.folderId)
       /\ panes[p].historyIndex = Len(panes[p].history) - 1
       /\ \A q \in Panes \ {p} : panes[q] = lastEvent.panesBefore[q]

\* a navigation from a pane that had gone back: entries after historyIndex
\* were dropped
C23_Witness ==
  /\ Just("navigate")
  /\ LET was == lastEvent.panesBefore[lastEvent.pane]
     IN /\ was.historyIndex < Len(was.history) - 1
        /\ was.currentFolderId # lastEvent.folderId
        /\ was.history[was.historyIndex + 2] # lastEvent.folderId

\* one step of a pane's history index
HistoryStep(op, was, now) ==
  LET d == IF op = "back" THEN -1 ELSE 1
      atEnd == IF op = "back"
               THEN was.historyIndex = 0
               ELSE was.historyIndex = Len(was.history) - 1
  IN IF atEnd
     THEN now = was
     ELSE /\ now.historyIndex = was.historyIndex + d
          /\ now.history = was.history
          /\ now.currentFolderId = now.history[now.historyIndex + 1]

\* C24: back with historyIndex > 0 and forward with historyIndex below the last
\* index change historyIndex by exactly one, make history[historyIndex] the
\* current folder and leave the history as it was; at the ends they change
\* nothing; back followed by forward returns to the same folder and index.
C24_BackForward ==
  /\ Just("back") \/ Just("forward") =>
       /\ HistoryStep(lastEvent.op, lastEvent.panesBefore[lastEvent.pane],
                      panes[lastEvent.pane])
       /\ \A q \in Panes \ {lastEvent.pane} : panes[q] = lastEvent.panesBefore[q]
  /\ Just("forward") /\ lastEvent.afterBack # NoValue =>
       /\ panes[lastEvent.pane].currentFolderId = lastEvent.afterBack.currentFolderId
       /\ panes[lastEvent.pane].historyIndex = lastEvent.afterBack.historyIndex

\* forward right after a back that moved the pane
C24_Witness ==
  /\ Just("forward")
  /\ lastEvent.afterBack # NoValue
  /\ lastEvent.afterBack.historyIndex > 0
  /\ panes[lastEvent.pane].historyIndex = lastEvent.afterBack.historyIndex

\* C25: up at the root changes nothing; elsewhere it navigates the pane, adding
\* a history entry, to the parent the store reports for the pane's current
\* folder (and changes nothing when the store's answer is a rejection).
C25_Up ==
  Just("up") =>
    LET p == lastEvent.pane
        was == lastEvent.panesBefore[p]
    IN IF was.currentFolderId = RootId
       THEN panes = lastEvent.panesBefore /\ lastEvent.calls = <<>>
       ELSE IF lastEvent.ok
       THEN /\ panes[p].currentFolderId =
                 lastEvent.before.nodes[was.currentFolderId].parentId
            /\ panes[p].history =
                 Append(SubSeq(was.history, 1, was.historyIndex + 1),
                        panes[p].currentFolderId)
            /\ panes[p].historyIndex = Len(panes[p].history) - 1
            /\ \A q \in Panes \ {p} : panes[q] = lastEvent.panesBefore[q]
       ELSE panes = lastEvent.panesBefore

\* up at the root, reached by an up from a top-level folder
C25_Witness ==
  /\ Just("up")
  /\ LET was == lastEvent.panesBefore[lastEvent.pane]
     IN /\ was.currentFolderId = RootId
        /\ was.historyIndex > 0
        /\ was.history[was.historyIndex] \in {BarId, OtherId}

\* the part of a pane's state that navigation owns
NavOf(ps) ==
  [currentFolderId |-> ps.currentFolderId, history |-> ps.history,
   historyIndex |-> ps.historyIndex]

\* C26: no step of a handler that changes the tree (create, paste, rename,
\* delete, drop) nor of undo changes any pane's currentFolderId, history or
\* historyIndex.
C26_MutationsKeepNavigation ==
  [][(\E h \in Mutating \cup {"undo"} : tasks'[h] # tasks[h]) =>
       \A p \in Panes : NavOf(panes'[p]) = NavOf(panes[p])]_vars

\* a delete has removed the folder that pane 2 had navigated into: the pane
\* still names that folder, at the end of its history
C26_Witness ==
  /\ Just("delete")
  /\ lastEvent.ok
  /\ panes[2].currentFolderId = lastEvent.id
  /\ ~Exists(store, panes[2].currentFolderId)
  /\ panes[2].historyIndex = 1
  /\ panes[2].history[2] = lastEvent.id

\* pane p shows the current children of its folder
Fresh(p) ==
  /\ Exists(store, panes[p].currentFolderId)
  /\ shown.pane[p] = RenderContent(store, panes[p].currentFolderId)

\* C27: when a handler that changed the tree (create folder, create bookmark,
\* paste, rename, delete, drop, undo) has completed with success, every pane on
\* screen shows the store's current children of its current folder and the
\* folder tree shows the store's current folders.
C27_ReloadAfterMutation ==
  (\E h \in Mutating \cup {"undo"} : Just(h)) /\ lastEvent.ok =>
    /\ \A p \in VisiblePanes : Fresh(p)
    /\ shown.tree = RenderTree(store)

\* ------------------------------------------------------------------
\* Frame of the undo log
\* ------------------------------------------------------------------
\* next is prev with one entry pushed, the oldest one evicted at the capacity
PushedOnto(prev, next) ==
  \/ /\ Len(next) = Len(prev) + 1
     /\ SubSeq(next, 1, Len(prev)) = prev
  \/ /\ Len(prev) = MAX_UNDO_STACK_SIZE
     /\ Len(next) = Len(prev)
     /\ SubSeq(next, 1, Len(prev) - 1) = SubSeq(prev, 2, Len(prev))

\* next is prev without its newest entry
PoppedFrom(prev, next) ==
  /\ prev # <<>>
  /\ next = SubSeq(prev, 1, Len(prev) - 1)

\* C28: the undo stack changes only by a push (evicting at the front when
\* full) in a step of a mutating handler, or by the pop of undo; every other
\* step (navigate, back, forward, up, selection, refresh, view mode, drag
\* events, a drop without a target) leaves the stack as it is.
C28_StackFrame ==
  [][/\ undoStack' # undoStack =>
          \/ /\ PushedOnto(undoStack, undoStack')
             /\ \E h \in Mutating : tasks'[h] # tasks[h]
          \/ /\ PoppedFrom(undoStack, undoStack')
             /\ tasks'["undo"] # tasks["undo"]
     /\ (\A h \in Mutating \cup {"undo"} : tasks'[h] = tasks[h]) =>
          undoStack' = undoStack]_vars

\* a drag session that ended without a move, on a stack that holds the entry
\* of the new folder
C28_Witness ==
  /\ Just("drop")
  /\ lastEvent.noTarget
  /\ ~dragging
  /\ undoStack # <<>>
  /\ undoStack = lastEvent.stackBefore

\* ------------------------------------------------------------------
\* Reorder drops
\* ------------------------------------------------------------------
\* seq without the item x
Without(seq, x) == SelectSeq(seq, LAMBDA y : y # x)

\* C29: after a successful reorder drop with position before (after) on target
\* T, the dragged item is the immediate predecessor (successor) of T among the
\* children of T's parent, whether it came from the same parent, from either
\* side of T, or from another parent; the other children of the parents
\* involved keep their order.
C29_ReorderOutcome ==
  Just("drop") /\ lastEvent.ok /\ lastEvent.reorder
    /\ lastEvent.dropPosition \in {"before", "after"} =>
    LET d == lastEvent.id
        T == lastEvent.targetId
        was == lastEvent.before
        parent == store.nodes[T].parentId
        from == was.nodes[d].parentId
    IN /\ store.nodes[d].parentId = parent
       /\ was.nodes[T].parentId = parent
       /\ IndexOf(store, d) =
            IF lastEvent.dropPosition = "before"
            THEN IndexOf(store, T) - 1
            ELSE IndexOf(store, T) + 1
       /\ Without(ChildrenOf(store, parent), d) = Without(ChildrenOf(was, parent), d)
       /\ ChildrenOf(store, from) =
            IF from = parent THEN ChildrenOf(store, parent)
            ELSE Without(ChildrenOf(was, from), d)

\* a reorder drop inside one parent from the lower side of the target, where
\* the removal shifts the target
C29_Witness ==
  /\ Just("drop")
  /\ lastEvent.ok
  /\ lastEvent.reorder
  /\ lastEvent.dropPosition = "after"
  /\ lastEvent.before.nodes[lastEvent.id].parentId =
       lastEvent.before.nodes[lastEvent.targetId].parentId
  /\ IndexOf(lastEvent.before, lastEvent.id) < IndexOf(lastEvent.before, lastEvent.targetId)
  /\ IndexOf(store, lastEvent.id) = IndexOf(store, lastEvent.targetId) + 1

\* ------------------------------------------------------------------
\* Drag-over
\* ------------------------------------------------------------------
\* the row a dragover event resolves: the row under the pointer, else the row
\* found nearby
Resolved(e) == IF e.hit # NoValue THEN e.hit ELSE e.near

LeftCandidate == closestCandidate(calc.variant, calc.left)

\* the pointer went to a descendant of the element left, or to an element that
\* belongs to another candidate
LeaveSuppressed ==
  /\ calc.related # NoValue
  /\ \/ Contains(LeftCandidate, calc.related)
     \/ closestCandidate(calc.variant, calc.related) \notin {NoValue, LeftCandidate}

\* C31: on drag-leave of a candidate element, the indicator, lastDropTarget
\* and lastDropPosition are left untouched when the related element is a
\* descendant of the element left or belongs to another candidate; otherwise
\* the indicator is removed from that element, and lastDropTarget and
\* lastDropPosition are cleared exactly when they referred to it.
C31_DragLeave ==
  Applied("leave") =>
    LET was == [el |-> calc.hover.el, position |-> calc.hover.position,
                indicator |-> IndicatorOf(calc.hover)]
        now == calc.result
    IN IF LeftCandidate = NoValue \/ LeaveSuppressed
       THEN now = was
       ELSE /\ now.indicator = IF was.indicator # NoValue /\ was.indicator.el = LeftCandidate
                               THEN NoValue ELSE was.indicator
            /\ IF was.el = LeftCandidate
               THEN now.el = NoValue /\ now.position = "none"
               ELSE now.el = was.el /\ now.position = was.position

\* the pointer left the recorded row, from an element inside it, for an
\* element outside every candidate: the record and the indicator are gone
C31_Witness ==
  /\ Applied("leave")
  /\ calc.left.kind = "inner"
  /\ calc.related = Background
  /\ calc.hover.el = LeftCandidate
  /\ calc.result.el = NoValue
  /\ calc.result.indicator = NoValue
  /\ lastDropTarget = LeftCandidate

\* C32: in the popup drop handler of popup/popup.js, when drag-end fires while
\* the handler is suspended on a store call, the move is still issued for the
\* item that was dragged and the Move entry pushed afterwards carries that
\* item's id: the handler never reads cleared session state after a
\* suspension point.
C32_PopupCapture ==
  /\ tasks["popupDrop"].pc = "moved" =>
       LET t == tasks["popupDrop"]
           c == t.g_calls[Len(t.g_calls)].call
       IN c.op = "move" /\ c.id = t.g_item
  /\ Just("popupDrop") /\ lastEvent.ok =>
       LET top == undoStack[Len(undoStack)]
       IN top.type = "move" /\ top.itemId = lastEvent.id

\* C33: after any sequence of successful create, paste, rename and drop-move
\* actions performed one at a time from an empty undo stack (fewer than the
\* stack holds), as many consecutive undos empty the stack and return the tree
\* to its initial state, although sibling indices shifted between the actions.
C33_RoundTrip ==
  (AllIdle /\ UndoPhase /\ undoStack = <<>>) =>
    /\ store.nodes = InitialStore.nodes
    /\ TreeShape(store) = TreeShape(InitialStore)

\* the last of the undos took back a move of the first row of its folder,
\* after the undo of a later action that had created a node
C33_Witness ==
  /\ AllIdle
  /\ undoStack = <<>>
  /\ UndoOf("move")
  /\ lastEvent.ok
  /\ lastEvent.entry.originalIndex = 0
  /\ Len(ChildrenOf(store, lastEvent.entry.originalParentId)) > 1
  /\ store.nextId > InitialStore.nextId
  /\ store.nodes = InitialStore.nodes

\* C34: undo inverts the most recent mutation applied to the store that is not
\* undone yet: an undo invoked while a mutation handler (rename, delete,
\* create, paste, drop) is suspended between its store mutation and the push
\* of its entry does not pop and invert an older entry beneath the one in
\* flight.
C34_UndoMostRecent ==
  tasks["undo"].pc # "idle" => tasks["undo"].g_inflight = {}

\* C35: the state of a drag session (draggedItem, lastDropTarget,
\* lastDropPosition) is cleared only by that session's own drop or drag-end:
\* when a drag starts while the drop handler of an earlier session is still
\* suspended, the completion of that handler does not clear the new session's
\* state, so that the new drag's drop still takes effect.
C35_SessionOwnsState ==
  (dragging /\ draggedItem = NoValue) => (lastEvent.op = "drop" /\ lastEvent.session = clock)

\* C36: in every reachable state every pane's currentFolderId is the entry of
\* its history at historyIndex.
C36_CurrentIsHistoryEntry ==
  \A p \in Panes :
    /\ panes[p].historyIndex + 1 \in DOMAIN panes[p].history
    /\ panes[p].currentFolderId = panes[p].history[panes[p].historyIndex + 1]

\* a pane that went two folders down and one back: its folder is the middle
\* entry of its history, not the last
C36_Witness ==
  \E p \in Panes :
    /\ Len(panes[p].history) = 3
    /\ panes[p].historyIndex = 1
    /\ panes[p].currentFolderId = panes[p].history[panes[p].historyIndex + 1]
    /\ panes[p].currentFolderId # panes[p].history[Len(panes[p].history)]
    /\ Just("back")

\* ------------------------------------------------------------------
\* Navigation controls, drop destinations and the folders the panes name
\* ------------------------------------------------------------------
\* C37: while no handler is in flight, every pane's back control is enabled
\* exactly when historyIndex > 0, its forward control exactly when
\* historyIndex < Len(history) - 1, and its up control exactly when
\* currentFolderId is not the root; also for a pane that shows an empty folder
C37_NavButtons ==
  AllIdle =>
    \A p \in Panes :
      (Exists(store, panes[p].currentFolderId)
         /\ IsFolderNode(store, panes[p].currentFolderId)) =>
      /\ shown.buttons[p].back = (panes[p].historyIndex > 0)
      /\ shown.buttons[p].forward = (panes[p].historyIndex < Len(panes[p].history) - 1)
      /\ shown.buttons[p].up = (panes[p].currentFolderId # RootId)

\* C38: no drop issues a store move whose destination parent is the dragged
\* item or one of its descendants, whatever strategy resolved the target
C38_NoMoveIntoOwnSubtree ==
  (lastEvent.op = "drop" /\ ~lastEvent.noTarget) =>
    \A i \in DOMAIN lastEvent.calls :
      LET c == lastEvent.calls[i].call
      IN (c.op = "move" /\ Exists(lastEvent.before, c.id)) =>
           c.parentId \notin SubtreeIds(lastEvent.before, c.id)

\* C39: a drop released over the dragged item's own row while no hover target
\* is recorded issues no store move and pushes no undo entry (every drop of
\* SpecOwnRow is such a drop)
C39_OwnRowDropIsNoOp ==
  lastEvent.op = "drop" =>
    /\ \A i \in DOMAIN lastEvent.calls : lastEvent.calls[i].call.op # "move"
    /\ ~lastEvent.ok
    /\ undoStack = lastEvent.stackBefore

\* C40: in every state each pane's currentFolderId names a node that exists in
\* the store, also after the folder a pane shows is deleted or its creation undone
C40_CurrentFolderExists ==
  \A p \in Panes : Exists(store, panes[p].currentFolderId)
====
